---- MODULE Spec2Model ----
(***************************************************************************)
(* Verification model of the openauction enclave core:                     *)
(*   - TokenManager (enclave/tokenmanager.go): the sync.Map backed store   *)
(*     of single-use auction tokens, driven by concurrent goroutines;      *)
(*   - RankCoreBids (core): the per-bidder highest-bid ranking;            *)
(*   - DecryptHybrid / EncryptHybrid (enclave/crypto.go) and the bid       *)
(*     decryption pipeline built on them.                                  *)
(* Each part has its own specification over the shared variable tuple.    *)
(***************************************************************************)
EXTENDS Integers, Sequences, FiniteSets, TLC

(***************************************************************************)
(* Bounds of the model.                                                    *)
(***************************************************************************)
NProcs == 2        \* goroutines calling the TokenManager concurrently
MaxTokens == 2     \* identifiers uuid.New() can hand out
MaxTime == 1       \* the wall clock runs 0..MaxTime
MaxCalls == 3      \* validate / consume / expire calls made in one run

MaxBids == 3       \* longest bid list given to RankCoreBids
MaxBidders == 3    \* distinct bidder names
MaxPrice == 2      \* prices are the finite values 1..MaxPrice

NKeys == 2         \* RSA key pairs
MaxBatchBids == 2  \* longest batch given to decryptAllBids

MaxPlainLen == 3   \* longest plaintext given to EncryptHybrid, in bytes
MaxByte == 1       \* a byte is one of 0..MaxByte

\* RemoveExpired is called with maxAge in 0..MaxAge
MaxAge == MaxTime - 1
\* longest tokenIDs slice given to ConsumeTokens
MaxBatch == MaxTokens

Procs == 1..NProcs
Uuids == 1..MaxTokens

\* tokenID == "" (the empty identifier)
EmptyID == 0
\* an identifier uuid.New() never returns ("nonexistent-token" in the tests)
NonexistentID == MaxTokens + 1

VARIABLES
    tokens,     \* tm.tokens: the sync.Map, tokenID -> CreatedAt
    clock,      \* time.Now()
    call,       \* per goroutine: its current (or last returned) call and its locals
    pc,         \* per goroutine: position inside the call
    stored,     \* history: identifiers GenerateToken has stored and returned
    vacCalls,   \* history: completed ValidateAndConsumeToken calls invoked on a live token
    vacTrue,    \* history: ValidateAndConsumeToken calls that returned true, per token
    nCalls      \* number of validate / consume / expire calls made so far

tmVars == <<tokens, clock, call, pc, stored, vacCalls, vacTrue, nCalls>>

VARIABLES
    bids,        \* the []CoreBid given to RankCoreBids
    rankResult,  \* the *CoreRankingResult of the latest RankCoreBids(bids)
    rankPrev,    \* the result of the call before it, on the same bids
    rankCalls    \* how many times RankCoreBids(bids) has been called

rankVars == <<bids, rankResult, rankPrev, rankCalls>>

VARIABLES
    encBids,       \* the batch of EncryptedCoreBid given to decryptAllBids
    keyManager,    \* the key manager given to it: Nil, or the private key
    pipeOut,       \* what decryptAllBids returned
    pipeDone,      \* decryptAllBids has been called
    consumedTokens, \* the consumedTokens set given to filterBidsByConsumedTokens
    filterOut,     \* what filterBidsByConsumedTokens returned
    filterDone     \* filterBidsByConsumedTokens has been called

pipeVars == <<encBids, keyManager, pipeOut, pipeDone,
              consumedTokens, filterOut, filterDone>>

VARIABLES
    inPlaintext,   \* the byte string given to EncryptHybrid
    encPublicKey,  \* the public key given to EncryptHybrid
    decPrivateKey, \* the private key given to DecryptHybrid
    encResult,     \* Nil, or the HybridEncryptionResult of EncryptHybrid
    decResult      \* Nil, or what DecryptHybrid returned: plaintext and err

cryptoVars == <<inPlaintext, encPublicKey, decPrivateKey, encResult, decResult>>

VARIABLES
    before         \* the store as it was when the last RemoveExpired call was made

seqVars == <<before>>

VARIABLES
    cleanup,           \* the cleanup goroutine: "none", "running" or "exited"
    ctxDone,           \* the context given to StartExpirationCleanup is canceled
    tickPending,       \* ticker.C holds a tick (the channel has room for one)
    cleanupMaxAge,     \* the maxAge given to StartExpirationCleanup
    sweepsAfterCancel  \* RemoveExpired calls the goroutine began after the cancel

cleanupVars == <<cleanup, ctxDone, tickPending, cleanupMaxAge, sweepsAfterCancel>>

vars == <<tmVars, rankVars, pipeVars, cryptoVars, seqVars, cleanupVars>>

(***************************************************************************)
(* sync.Map, as TokenManager uses it.  Every method is one atomic step;    *)
(* Range is not: it is modelled step by step in RemoveExpired.             *)
(***************************************************************************)
MapLoad(m, k) == k \in DOMAIN m

MapStore(m, k, v) == [x \in DOMAIN m \cup {k} |-> IF x = k THEN v ELSE m[x]]

MapDelete(m, k) == [x \in DOMAIN m \ {k} |-> m[x]]

Sat(n) == IF n > NProcs THEN NProcs + 1 ELSE n

NoCall ==
    [op |-> "none", tokenID |-> EmptyID, tokenIDs |-> <<>>, maxAge |-> 0,
     now |-> 0, expiredCount |-> 0, visited |-> {}, snap |-> {},
     createdAt |-> 0, retBool |-> FALSE, retInt |-> 0, live |-> FALSE,
     removedHere |-> 0, batch |-> <<>>, count |-> 0]

\* identifiers a caller can pass: the ones GenerateToken returned so far,
\* the empty string, and a string that is no token
Args == stored \cup {EmptyID, NonexistentID}

RECURSIVE SeqsUpTo(_, _)
SeqsUpTo(S, n) ==
    IF n = 0 THEN {<<>>}
    ELSE LET shorter == SeqsUpTo(S, n - 1)
         IN  shorter \cup {Append(s, x) : s \in {t \in shorter : Len(t) = n - 1}, x \in S}

\* goroutine p is free to make a call: it has none in progress, and the
\* result of its last one (if any) has been handed back
Free(p) == pc[p] \in {"idle", "ret"}

CanCall(p) ==
    /\ Free(p)
    /\ nCalls < MaxCalls

Invoke(p, at, c) ==
    /\ nCalls' = nCalls + 1
    /\ pc' = [pc EXCEPT ![p] = at]
    /\ call' = [call EXCEPT ![p] = c]

(***************************************************************************)
(* GenerateToken: uuid.New() and time.Now() are evaluated, then Store.     *)
(***************************************************************************)
\* a generator that may hand out an identifier it has handed out before
uuidNew_Repeating == Uuids

\* uuid.New(): 122 random bits; an identifier is not handed out twice
uuidNew ==
    Uuids \ (stored \cup {call[q].tokenID : q \in {r \in Procs : pc[r] = "GenerateToken.Store"}})

\* a GenerateToken that returns the identifier without storing it
GenerateToken_NoStore(p) ==
    \/ /\ Free(p)
       /\ \E id \in uuidNew :
            /\ pc' = [pc EXCEPT ![p] = "GenerateToken.Store"]
            /\ call' = [call EXCEPT ![p] =
                          [NoCall EXCEPT !.op = "GenerateToken", !.tokenID = id,
                                         !.createdAt = clock]]
       /\ UNCHANGED <<tokens, clock, stored, vacCalls, vacTrue, nCalls>>
    \/ /\ pc[p] = "GenerateToken.Store"
       /\ stored' = stored \cup {call[p].tokenID}
       /\ pc' = [pc EXCEPT ![p] = "ret"]
       /\ UNCHANGED <<tokens, clock, call, vacCalls, vacTrue, nCalls>>

GenerateToken(p) ==
    \/ /\ Free(p)
       /\ \E id \in uuidNew :
            /\ pc' = [pc EXCEPT ![p] = "GenerateToken.Store"]
            /\ call' = [call EXCEPT ![p] =
                          [NoCall EXCEPT !.op = "GenerateToken", !.tokenID = id,
                                         !.createdAt = clock]]
       /\ UNCHANGED <<tokens, clock, stored, vacCalls, vacTrue, nCalls>>
    \/ /\ pc[p] = "GenerateToken.Store"
       /\ tokens' = MapStore(tokens, call[p].tokenID, call[p].createdAt)
       /\ stored' = stored \cup {call[p].tokenID}
       /\ pc' = [pc EXCEPT ![p] = "ret"]
       /\ UNCHANGED <<clock, call, vacCalls, vacTrue, nCalls>>

(***************************************************************************)
(* ValidateToken: "" is refused, otherwise one Load.  `live` records       *)
(* whether the identifier was in the store when the call was made.         *)
(***************************************************************************)
\* a ValidateToken that takes the token out of the store when it finds it
ValidateToken_Consuming(p) ==
    /\ CanCall(p)
    /\ \E id \in Args :
         /\ Invoke(p, "ret",
                   [NoCall EXCEPT !.op = "ValidateToken", !.tokenID = id,
                                  !.live = MapLoad(tokens, id),
                                  !.retBool = IF id = EmptyID THEN FALSE
                                              ELSE MapLoad(tokens, id)])
         /\ tokens' = MapDelete(tokens, id)
    /\ UNCHANGED <<clock, stored, vacCalls, vacTrue>>

ValidateToken(p) ==
    /\ CanCall(p)
    /\ \E id \in Args :
         Invoke(p, "ret",
                [NoCall EXCEPT !.op = "ValidateToken", !.tokenID = id,
                               !.live = MapLoad(tokens, id),
                               !.retBool = IF id = EmptyID THEN FALSE
                                           ELSE MapLoad(tokens, id)])
    /\ UNCHANGED <<tokens, clock, stored, vacCalls, vacTrue>>

(***************************************************************************)
(* ValidateAndConsumeToken: "" is refused, otherwise one LoadAndDelete.    *)
(* The call and the LoadAndDelete are separate steps: other goroutines     *)
(* run between them.                                                       *)
(***************************************************************************)
VACInvoke(p) ==
    /\ CanCall(p)
    /\ \E id \in Args :
         Invoke(p, "ValidateAndConsumeToken",
                [NoCall EXCEPT !.op = "ValidateAndConsumeToken", !.tokenID = id,
                               !.live = MapLoad(tokens, id)])
    /\ UNCHANGED <<tokens, clock, stored, vacCalls, vacTrue>>

VACReturn(p, existed) ==
    /\ call' = [call EXCEPT ![p].retBool = existed,
                            ![p].removedHere = Cardinality(DOMAIN tokens \ DOMAIN tokens')]
    /\ pc' = [pc EXCEPT ![p] = "ret"]
    /\ vacCalls' = IF call[p].live
                   THEN [vacCalls EXCEPT ![call[p].tokenID] = Sat(@ + 1)]
                   ELSE vacCalls
    /\ vacTrue' = IF existed
                  THEN [vacTrue EXCEPT ![call[p].tokenID] = Sat(@ + 1)]
                  ELSE vacTrue

\* a validate-and-consume that would Load without deleting
ValidateAndConsumeToken_LoadOnly(p) ==
    \/ VACInvoke(p)
    \/ /\ pc[p] = "ValidateAndConsumeToken"
       /\ IF call[p].tokenID = EmptyID
          THEN /\ UNCHANGED tokens
               /\ VACReturn(p, FALSE)
          ELSE /\ UNCHANGED tokens
               /\ VACReturn(p, MapLoad(tokens, call[p].tokenID))
       /\ UNCHANGED <<clock, stored, nCalls>>

\* a validate-and-consume that fails while another such call is in progress,
\* whatever token that one is about
ValidateAndConsumeToken_Exclusive(p) ==
    \/ VACInvoke(p)
    \/ /\ pc[p] = "ValidateAndConsumeToken"
       /\ IF \/ call[p].tokenID = EmptyID
             \/ \E q \in Procs \ {p} : pc[q] = "ValidateAndConsumeToken"
          THEN /\ UNCHANGED tokens
               /\ VACReturn(p, FALSE)
          ELSE /\ tokens' = MapDelete(tokens, call[p].tokenID)
               /\ VACReturn(p, MapLoad(tokens, call[p].tokenID))
       /\ UNCHANGED <<clock, stored, nCalls>>

ValidateAndConsumeToken(p) ==
    \/ VACInvoke(p)
    \/ /\ pc[p] = "ValidateAndConsumeToken"
       /\ IF call[p].tokenID = EmptyID
          THEN /\ UNCHANGED tokens
               /\ VACReturn(p, FALSE)
          ELSE /\ tokens' = MapDelete(tokens, call[p].tokenID)
               /\ VACReturn(p, MapLoad(tokens, call[p].tokenID))
       /\ UNCHANGED <<clock, stored, nCalls>>

(***************************************************************************)
(* ConsumeToken / ConsumeTokens: unconditional Delete, one per identifier. *)
(***************************************************************************)
ConsumeToken(p) ==
    /\ CanCall(p)
    /\ \E id \in Args :
         /\ Invoke(p, "ret", [NoCall EXCEPT !.op = "ConsumeToken", !.tokenID = id])
         /\ tokens' = MapDelete(tokens, id)
    /\ UNCHANGED <<clock, stored, vacCalls, vacTrue>>

\* a loop that gives up at the first identifier that is not in the store
ConsumeTokens_StopAtAbsent(p) ==
    \/ /\ CanCall(p)
       /\ \E ids \in SeqsUpTo(stored \cup {NonexistentID}, MaxBatch) :
            Invoke(p, IF ids = <<>> THEN "ret" ELSE "ConsumeTokens",
                   [NoCall EXCEPT !.op = "ConsumeTokens", !.tokenIDs = ids,
                                  !.batch = ids])
       /\ UNCHANGED <<tokens, clock, stored, vacCalls, vacTrue>>
    \/ /\ pc[p] = "ConsumeTokens"
       /\ tokens' = MapDelete(tokens, Head(call[p].tokenIDs))
       /\ call' = [call EXCEPT ![p].tokenIDs = Tail(@)]
       /\ pc' = [pc EXCEPT ![p] = IF \/ Tail(call[p].tokenIDs) = <<>>
                                     \/ ~MapLoad(tokens, Head(call[p].tokenIDs))
                                  THEN "ret" ELSE @]
       /\ UNCHANGED <<clock, stored, vacCalls, vacTrue, nCalls>>

\* `tokenIDs` is what the range loop has still to visit, `batch` the slice
\* the caller passed
ConsumeTokens(p) ==
    \/ /\ CanCall(p)
       /\ \E ids \in SeqsUpTo(stored \cup {NonexistentID}, MaxBatch) :
            Invoke(p, IF ids = <<>> THEN "ret" ELSE "ConsumeTokens",
                   [NoCall EXCEPT !.op = "ConsumeTokens", !.tokenIDs = ids,
                                  !.batch = ids])
       /\ UNCHANGED <<tokens, clock, stored, vacCalls, vacTrue>>
    \/ /\ pc[p] = "ConsumeTokens"
       /\ tokens' = MapDelete(tokens, Head(call[p].tokenIDs))
       /\ call' = [call EXCEPT ![p].tokenIDs = Tail(@)]
       /\ pc' = [pc EXCEPT ![p] = IF Tail(call[p].tokenIDs) = <<>> THEN "ret" ELSE @]
       /\ UNCHANGED <<clock, stored, vacCalls, vacTrue, nCalls>>

(***************************************************************************)
(* RemoveExpired: now is read once; Range visits each key at most once,    *)
(* loading its value when it gets to it, and calls the callback, which     *)
(* deletes the key and counts it when the token is older than maxAge.      *)
(* Keys stored while the Range runs may or may not be visited; keys that   *)
(* were there when it began are visited unless they are deleted first.     *)
(* `removedHere` counts the entries this call itself took out of the store *)
(* (the Deletes that found their key).                                     *)
(***************************************************************************)
\* an expiry test that would also take the entries exactly maxAge old
Expired_OrEqual(now, createdAt, maxAge) == now - createdAt >= maxAge

\* now.Sub(token.CreatedAt) > maxAge
Expired(now, createdAt, maxAge) == now - createdAt > maxAge

\* a RemoveExpired that would read the time anew for every entry
RemoveExpired_NowPerEntry(p) ==
    \/ /\ CanCall(p)
       /\ \E age \in 0..MaxAge :
            Invoke(p, "RemoveExpired.Range",
                   [NoCall EXCEPT !.op = "RemoveExpired", !.maxAge = age, !.now = clock,
                                  !.snap = DOMAIN tokens])
       /\ UNCHANGED <<tokens, clock, stored, vacCalls, vacTrue>>
    \/ /\ pc[p] = "RemoveExpired.Range"
       /\ \E k \in DOMAIN tokens \ call[p].visited :
            call' = [call EXCEPT ![p].tokenID = k, ![p].createdAt = tokens[k],
                                 ![p].visited = @ \cup {k}]
       /\ pc' = [pc EXCEPT ![p] = "RemoveExpired.func"]
       /\ UNCHANGED <<tokens, clock, stored, vacCalls, vacTrue, nCalls>>
    \/ /\ pc[p] = "RemoveExpired.func"
       /\ IF Expired(clock, call[p].createdAt, call[p].maxAge)
          THEN /\ tokens' = MapDelete(tokens, call[p].tokenID)
               /\ call' = [call EXCEPT
                             ![p].expiredCount = @ + 1,
                             ![p].removedHere =
                                 IF MapLoad(tokens, call[p].tokenID) THEN @ + 1 ELSE @]
          ELSE UNCHANGED <<tokens, call>>
       /\ pc' = [pc EXCEPT ![p] = "RemoveExpired.Range"]
       /\ UNCHANGED <<clock, stored, vacCalls, vacTrue, nCalls>>
    \/ /\ pc[p] = "RemoveExpired.Range"
       /\ (call[p].snap \cap DOMAIN tokens) \subseteq call[p].visited
       /\ call' = [call EXCEPT ![p].retInt = call[p].expiredCount,
                               ![p].visited = {}, ![p].snap = {},
                               ![p].tokenID = EmptyID, ![p].createdAt = 0]
       /\ pc' = [pc EXCEPT ![p] = "ret"]
       /\ UNCHANGED <<tokens, clock, stored, vacCalls, vacTrue, nCalls>>

RemoveExpired(p) ==
    \/ /\ CanCall(p)
       /\ \E age \in 0..MaxAge :
            Invoke(p, "RemoveExpired.Range",
                   [NoCall EXCEPT !.op = "RemoveExpired", !.maxAge = age, !.now = clock,
                                  !.snap = DOMAIN tokens])
       /\ UNCHANGED <<tokens, clock, stored, vacCalls, vacTrue>>
    \/ /\ pc[p] = "RemoveExpired.Range"
       /\ \E k \in DOMAIN tokens \ call[p].visited :
            call' = [call EXCEPT ![p].tokenID = k, ![p].createdAt = tokens[k],
                                 ![p].visited = @ \cup {k}]
       /\ pc' = [pc EXCEPT ![p] = "RemoveExpired.func"]
       /\ UNCHANGED <<tokens, clock, stored, vacCalls, vacTrue, nCalls>>
    \/ /\ pc[p] = "RemoveExpired.func"
       /\ IF Expired(call[p].now, call[p].createdAt, call[p].maxAge)
          THEN /\ tokens' = MapDelete(tokens, call[p].tokenID)
               /\ call' = [call EXCEPT
                             ![p].expiredCount = @ + 1,
                             ![p].removedHere =
                                 IF MapLoad(tokens, call[p].tokenID) THEN @ + 1 ELSE @]
          ELSE UNCHANGED <<tokens, call>>
       /\ pc' = [pc EXCEPT ![p] = "RemoveExpired.Range"]
       /\ UNCHANGED <<clock, stored, vacCalls, vacTrue, nCalls>>
    \/ /\ pc[p] = "RemoveExpired.Range"
       /\ (call[p].snap \cap DOMAIN tokens) \subseteq call[p].visited
       /\ call' = [call EXCEPT ![p].retInt = call[p].expiredCount,
                               ![p].visited = {}, ![p].snap = {},
                               ![p].tokenID = EmptyID, ![p].createdAt = 0]
       /\ pc' = [pc EXCEPT ![p] = "ret"]
       /\ UNCHANGED <<tokens, clock, stored, vacCalls, vacTrue, nCalls>>

(***************************************************************************)
(* Count: a Range that adds one per entry it visits.  As in RemoveExpired, *)
(* the entries that were there when the Range began are visited unless     *)
(* they are deleted first, the ones stored meanwhile may be visited or     *)
(* not.  `snap` keeps the keys the store had when the call was made.       *)
(***************************************************************************)
Count(p) ==
    \/ /\ CanCall(p)
       /\ Invoke(p, "Count.Range", [NoCall EXCEPT !.op = "Count", !.snap = DOMAIN tokens])
       /\ UNCHANGED <<tokens, clock, stored, vacCalls, vacTrue>>
    \/ /\ pc[p] = "Count.Range"
       /\ \E k \in DOMAIN tokens \ call[p].visited :
            call' = [call EXCEPT ![p].visited = @ \cup {k}, ![p].count = @ + 1]
       /\ UNCHANGED <<tokens, clock, pc, stored, vacCalls, vacTrue, nCalls>>
    \/ /\ pc[p] = "Count.Range"
       /\ (call[p].snap \cap DOMAIN tokens) \subseteq call[p].visited
       /\ call' = [call EXCEPT ![p].retInt = call[p].count, ![p].visited = {}]
       /\ pc' = [pc EXCEPT ![p] = "ret"]
       /\ UNCHANGED <<tokens, clock, stored, vacCalls, vacTrue, nCalls>>

\* time passes
Tick ==
    /\ clock < MaxTime
    /\ clock' = clock + 1
    /\ UNCHANGED <<tokens, call, pc, stored, vacCalls, vacTrue, nCalls>>

TMInit ==
    /\ tokens = <<>>
    /\ clock = 0
    /\ call = [p \in Procs |-> NoCall]
    /\ pc = [p \in Procs |-> "idle"]
    /\ stored = {}
    /\ vacCalls = [u \in Uuids |-> 0]
    /\ vacTrue = [u \in Uuids |-> 0]
    /\ nCalls = 0

SeqIdle == before = <<>>

\* one goroutine calling the TokenManager, the others making no call
Caller == CHOOSE p \in Procs : \A q \in Procs : p <= q

\* RemoveExpired called by the only caller: `before` keeps the store of
\* the moment of the call
SeqRemoveExpired ==
    /\ RemoveExpired(Caller)
    /\ before' = IF Free(Caller) THEN tokens ELSE before

(***************************************************************************)
(* StartExpirationCleanup: a goroutine that loops on a select between      *)
(* ctx.Done() and ticker.C and calls RemoveExpired(maxAge) on every tick   *)
(* it receives.  When both channels are ready, select takes either one.    *)
(* The ticker keeps at most one tick in its channel and drops the others.  *)
(***************************************************************************)
\* the goroutine StartExpirationCleanup starts
Cleaner == CHOOSE p \in Procs : \A q \in Procs : q <= p

CleanupIdle ==
    /\ cleanup = "none"
    /\ ctxDone = FALSE
    /\ tickPending = FALSE
    /\ cleanupMaxAge = 0
    /\ sweepsAfterCancel = 0

\* go func() { ticker := time.NewTicker(interval) ...
StartExpirationCleanup ==
    /\ cleanup = "none"
    /\ Free(Cleaner)
    /\ cleanup' = "running"
    /\ cleanupMaxAge' \in 0..MaxAge
    /\ UNCHANGED <<ctxDone, tickPending, sweepsAfterCancel>>
    /\ UNCHANGED tmVars

\* the caller cancels the context
Cancel ==
    /\ ~ctxDone
    /\ ctxDone' = TRUE
    /\ UNCHANGED <<cleanup, tickPending, cleanupMaxAge, sweepsAfterCancel>>
    /\ UNCHANGED tmVars

\* a timer in place of the ticker: it stops firing once a sweep has begun
TickerFire_Once ==
    /\ cleanup = "running"
    /\ ~tickPending
    /\ nCalls = 0
    /\ tickPending' = TRUE
    /\ UNCHANGED <<cleanup, ctxDone, cleanupMaxAge, sweepsAfterCancel>>
    /\ UNCHANGED tmVars

\* the interval has passed: the ticker puts a tick in its channel
TickerFire ==
    /\ cleanup = "running"
    /\ ~tickPending
    /\ tickPending' = TRUE
    /\ UNCHANGED <<cleanup, ctxDone, cleanupMaxAge, sweepsAfterCancel>>
    /\ UNCHANGED tmVars

\* the goroutine is at its select
AtSelect == cleanup = "running" /\ Free(Cleaner)

\* case <-ticker.C can proceed
TickCase == AtSelect /\ tickPending

\* case <-ctx.Done(): return, and the deferred ticker.Stop()
SelectDone ==
    /\ AtSelect
    /\ ctxDone
    /\ cleanup' = "exited"
    /\ tickPending' = FALSE
    /\ UNCHANGED <<ctxDone, cleanupMaxAge, sweepsAfterCancel>>
    /\ UNCHANGED tmVars

\* case <-ticker.C: removed := tm.RemoveExpired(maxAge), the call
SelectTick ==
    /\ TickCase
    /\ tickPending' = FALSE
    /\ RemoveExpired(Cleaner)
    /\ call'[Cleaner].maxAge = cleanupMaxAge
    /\ sweepsAfterCancel' = IF ctxDone THEN sweepsAfterCancel + 1 ELSE sweepsAfterCancel
    /\ UNCHANGED <<cleanup, ctxDone, cleanupMaxAge>>

\* tm.RemoveExpired(maxAge), its steps up to its return
Sweep ==
    /\ cleanup = "running"
    /\ ~Free(Cleaner)
    /\ RemoveExpired(Cleaner)
    /\ UNCHANGED cleanupVars

(***************************************************************************)
(* RankCoreBids (core).  A bid is a CoreBid record; the *CoreBid pointers  *)
(* the function keeps (&bids[i]) are modelled by the index i, 1-based.     *)
(***************************************************************************)
Bidders == 1..MaxBidders
Prices == 1..MaxPrice

CoreBid == [Bidder : Bidders, Price : Prices]

EmptyRanking == [Ranks |-> <<>>, HighestBids |-> <<>>, SortedBidders |-> <<>>]

\* variants of the replacement test: one that also replaces on an equal
\* price, one that keeps the lowest bid
Better_OrEqual(bid, existing) == bid.Price >= existing.Price

Better_Lower(bid, existing) == bid.Price < existing.Price

\* bid.Price > existing.Price
Better(bid, existing) == bid.Price > existing.Price

\* the loop over bids that fills bidderMap: bidder -> index of the retained bid
RECURSIVE BidderMap(_, _)
BidderMap(bs, n) ==
    IF n = 0 THEN <<>>
    ELSE LET m == BidderMap(bs, n - 1)
             bid == bs[n]
         IN  IF bid.Bidder \notin DOMAIN m \/ Better(bid, bs[m[bid.Bidder]])
             THEN [b \in DOMAIN m \cup {bid.Bidder} |->
                     IF b = bid.Bidder THEN n ELSE m[b]]
             ELSE m

Perms(S) ==
    {s \in [1..Cardinality(S) -> S] : \A i, j \in 1..Cardinality(S) : i # j => s[i] # s[j]}

\* `for bidder, bid := range bidderMap`: Go iterates a map in an order of its
\* own choosing; every order of the entries can come out
MapOrders(m) ==
    {[i \in 1..Cardinality(DOMAIN m) |-> [bidder |-> o[i], bid |-> m[o[i]]]] :
        o \in Perms(DOMAIN m)}

\* a less function that would sort lowest price first
Less_Ascending(bs, ei, ej) == bs[ei.bid].Price < bs[ej.bid].Price

\* the less function given to sort.Slice

Less(bs, ei, ej) == bs[ei.bid].Price > bs[ej.bid].Price

\* sort.Slice(entries, less): the entries rearranged so that none is less than
\* one before it; the sort is not stable, equal entries come out in any order
SortSlice(bs, entries) ==
    {sorted \in {[i \in 1..Len(entries) |-> entries[o[i]]] : o \in Perms(1..Len(entries))} :
        \A i, j \in 1..Len(entries) : i < j => ~Less(bs, sorted[j], sorted[i])}

\* a rank that would start at 0
RankValue_ZeroBased(rank) == rank

\* rankValue := rank + 1, rank the 0-based position in the sorted entries

RankValue(rank) == rank + 1

\* the result built from the sorted entries
RankingOf(entries) ==
    [Ranks |-> [b \in {entries[i].bidder : i \in 1..Len(entries)} |->
                  RankValue((CHOOSE i \in 1..Len(entries) : entries[i].bidder = b) - 1)],
     HighestBids |-> [b \in {entries[i].bidder : i \in 1..Len(entries)} |->
                  entries[CHOOSE i \in 1..Len(entries) : entries[i].bidder = b].bid],
     SortedBidders |-> [i \in 1..Len(entries) |-> entries[i].bidder]]

\* every result RankCoreBids(bs) can return
RankCoreBids(bs) ==
    IF Len(bs) = 0 THEN {EmptyRanking}
    ELSE {RankingOf(sorted) :
            sorted \in UNION {SortSlice(bs, entries) : entries \in MapOrders(BidderMap(bs, Len(bs)))}}

RankInit ==
    /\ bids \in SeqsUpTo(CoreBid, MaxBids)
    /\ rankResult = EmptyRanking
    /\ rankPrev = EmptyRanking
    /\ rankCalls = 0

RankIdle ==
    /\ bids = <<>>
    /\ rankResult = EmptyRanking
    /\ rankPrev = EmptyRanking
    /\ rankCalls = 0

\* the first call of RankCoreBids on the bid list
Rank ==
    /\ rankCalls = 0
    /\ rankResult' \in RankCoreBids(bids)
    /\ rankCalls' = 1
    /\ UNCHANGED <<bids, rankPrev>>

\* a second call on the same bid list
RankAgain ==
    /\ rankCalls = 1
    /\ rankPrev' = rankResult
    /\ rankResult' \in RankCoreBids(bids)
    /\ rankCalls' = 2
    /\ UNCHANGED bids

(***************************************************************************)
(* Hybrid encryption (enclave/crypto.go, enclave/testcryptoutils.go).      *)
(* Byte strings are modelled by what the primitives can tell about them:   *)
(*   - a base64 field is [valid, bytes]: DecodeString fails unless valid;  *)
(*   - an RSA-OAEP ciphertext is [pub, msg]: DecryptOAEP returns msg to    *)
(*     the private key of pub and fails for every other key;               *)
(*   - an AES key is [id, len], a nonce is [id, len];                      *)
(*   - a GCM ciphertext is [key, nonce, pt, intact]: Open returns pt when  *)
(*     given the key and nonce it was sealed with and the bytes are as     *)
(*     Seal produced them, and fails otherwise.                            *)
(* A nil pointer or nil slice is the empty sequence, a non-nil one the     *)
(* one-element sequence.                                                   *)
(***************************************************************************)
KeyIDs == 1..NKeys

\* cipher.NewGCM: the standard nonce size
GCMNonceSize == 12
\* AES-256
AESKeyLen == 32

Nil == <<>>
Ptr(x) == <<x>>

B64(bytes) == [valid |-> TRUE, bytes |-> bytes]

\* json.Marshal of {"price": p} with an optional "auction_token"
PayloadJSON(price, token) ==
    IF token = EmptyID
    THEN [price |-> price]
    ELSE [price |-> price, auction_token |-> token]

\* a payload structure without the auction_token field
Unmarshal_NoToken(pt) ==
    [Price |-> pt.price, AuctionToken |-> EmptyID]

\* json.Unmarshal into DecryptedBidPayload: a missing "auction_token"
\* leaves the field at its zero value
Unmarshal(pt) ==
    [Price |-> pt.price,
     AuctionToken |-> IF "auction_token" \in DOMAIN pt THEN pt.auction_token ELSE EmptyID]

\* a key generator that would make AES-128 keys
FreshAESKey_Short == [id |-> "aesKey", len |-> AESKeyLen \div 2]

\* rand.Read: the key and the nonce of an honest encryption
FreshAESKey == [id |-> "aesKey", len |-> AESKeyLen]
FreshNonce == [id |-> "nonce", len |-> GCMNonceSize]

Seal(aesKey, nonce, plaintext) ==
    [key |-> aesKey.id, nonce |-> nonce.id, pt |-> plaintext, intact |-> TRUE]

EncryptOAEP(publicKey, msg) == [pub |-> publicKey, msg |-> msg]

EncryptHybrid(plaintext, publicKey) ==
    [EncryptedAESKey |-> B64(EncryptOAEP(publicKey, FreshAESKey)),
     EncryptedPayload |-> B64(Seal(FreshAESKey, FreshNonce, plaintext)),
     Nonce |-> B64(FreshNonce)]

Failed(msg) == [err |-> msg, plaintext |-> Nil]

\* an Open that would not authenticate
Open_NoAuth(aesKey, nonce, ciphertext) == TRUE

\* aesgcm.Open: authenticates before it returns anything
Open(aesKey, nonce, ciphertext) ==
    /\ ciphertext.key = aesKey.id
    /\ ciphertext.nonce = nonce.id
    /\ ciphertext.intact

\* a DecryptHybrid whose key unwrapping would accept any private key
DecryptHybrid_AnyKey(encryptedAESKey, encryptedPayload, nonceB64, privKey) ==
    IF ~encryptedAESKey.valid THEN Failed("failed to decode encrypted AES key")
    ELSE IF ~encryptedPayload.valid THEN Failed("failed to decode encrypted payload")
    ELSE IF ~nonceB64.valid THEN Failed("failed to decode nonce")
    ELSE LET aesKey == encryptedAESKey.bytes.msg
             nonceBytes == nonceB64.bytes
             ciphertext == encryptedPayload.bytes
         IN  IF aesKey.len # AESKeyLen THEN Failed("invalid AES key length")
             ELSE IF nonceBytes.len # GCMNonceSize THEN Failed("invalid nonce length")
             ELSE IF ~Open(aesKey, nonceBytes, ciphertext) THEN Failed("failed to decrypt payload")
             ELSE [err |-> "", plaintext |-> Ptr(ciphertext.pt)]

\* a DecryptHybrid that would look at the nonce length before the key
DecryptHybrid_NonceFirst(encryptedAESKey, encryptedPayload, nonceB64, privKey) ==
    IF ~encryptedAESKey.valid THEN Failed("failed to decode encrypted AES key")
    ELSE IF ~encryptedPayload.valid THEN Failed("failed to decode encrypted payload")
    ELSE IF ~nonceB64.valid THEN Failed("failed to decode nonce")
    ELSE IF nonceB64.bytes.len # GCMNonceSize THEN Failed("invalid nonce length")
    ELSE IF encryptedAESKey.bytes.pub # privKey THEN Failed("failed to decrypt AES key")
    ELSE LET aesKey == encryptedAESKey.bytes.msg
             nonceBytes == nonceB64.bytes
             ciphertext == encryptedPayload.bytes
         IN  IF aesKey.len # AESKeyLen THEN Failed("invalid AES key length")
             ELSE IF ~Open(aesKey, nonceBytes, ciphertext) THEN Failed("failed to decrypt payload")
             ELSE [err |-> "", plaintext |-> Ptr(ciphertext.pt)]

DecryptHybrid(encryptedAESKey, encryptedPayload, nonceB64, privateKey) ==
    IF ~encryptedAESKey.valid THEN Failed("failed to decode encrypted AES key")
    ELSE IF ~encryptedPayload.valid THEN Failed("failed to decode encrypted payload")
    ELSE IF ~nonceB64.valid THEN Failed("failed to decode nonce")
    ELSE IF encryptedAESKey.bytes.pub # privateKey THEN Failed("failed to decrypt AES key")
    ELSE LET aesKey == encryptedAESKey.bytes.msg
             nonceBytes == nonceB64.bytes
             ciphertext == encryptedPayload.bytes
         IN  IF aesKey.len # AESKeyLen THEN Failed("invalid AES key length")
             ELSE IF nonceBytes.len # GCMNonceSize THEN Failed("invalid nonce length")
             ELSE IF ~Open(aesKey, nonceBytes, ciphertext) THEN Failed("failed to decrypt payload")
             ELSE [err |-> "", plaintext |-> Ptr(ciphertext.pt)]

(***************************************************************************)
(* EncryptHybrid and DecryptHybrid called one after the other on a byte    *)
(* string, with a public key and a private key that may or may not be of   *)
(* the same pair.                                                          *)
(***************************************************************************)
Bytes == 0..MaxByte

PlainTexts == SeqsUpTo(Bytes, MaxPlainLen)

CryptoInit ==
    /\ inPlaintext \in PlainTexts
    /\ encPublicKey \in KeyIDs
    /\ decPrivateKey \in KeyIDs
    /\ encResult = Nil
    /\ decResult = Nil

CryptoIdle ==
    /\ inPlaintext = <<>>
    /\ encPublicKey = NKeys
    /\ decPrivateKey = NKeys
    /\ encResult = Nil
    /\ decResult = Nil

\* result, err := EncryptHybrid(plaintext, publicKey)
Encrypt ==
    /\ encResult = Nil
    /\ encResult' = Ptr(EncryptHybrid(inPlaintext, encPublicKey))
    /\ UNCHANGED <<inPlaintext, encPublicKey, decPrivateKey, decResult>>

\* decrypted, err := DecryptHybrid(result.EncryptedAESKey,
\*     result.EncryptedPayload, result.Nonce, privateKey)
Decrypt ==
    /\ encResult # Nil
    /\ decResult = Nil
    /\ decResult' = Ptr(DecryptHybrid(encResult[1].EncryptedAESKey,
                                      encResult[1].EncryptedPayload,
                                      encResult[1].Nonce, decPrivateKey))
    /\ UNCHANGED <<inPlaintext, encPublicKey, decPrivateKey, encResult>>

(***************************************************************************)
(* What a bidder, honest or not, can put in EncryptedPrice: the result of  *)
(* EncryptHybrid for some key, delivered as it is or damaged.              *)
(***************************************************************************)
Damages ==
    {"none", "badKeyB64", "badPayloadB64", "badNonceB64",
     "tampered", "shortKey", "longNonce"}

Damage(e, how) ==
    CASE how = "none" -> e
      [] how = "badKeyB64" ->
            [e EXCEPT !.EncryptedAESKey.valid = FALSE]
      [] how = "badPayloadB64" ->
            [e EXCEPT !.EncryptedPayload.valid = FALSE]
      [] how = "badNonceB64" ->
            [e EXCEPT !.Nonce.valid = FALSE]
      [] how = "tampered" ->
            [e EXCEPT !.EncryptedPayload.bytes.intact = FALSE]
      [] how = "shortKey" ->
            [e EXCEPT !.EncryptedAESKey.bytes.msg.len = AESKeyLen \div 2]
      [] how = "longNonce" ->
            [e EXCEPT !.Nonce.bytes.len = GCMNonceSize + 1]

\* several damages at once
RECURSIVE DamageAll(_, _)
DamageAll(e, hows) ==
    IF hows = {} THEN e
    ELSE LET how == CHOOSE h \in hows : TRUE
         IN  DamageAll(Damage(e, how), hows \ {how})

\* DecryptHybrid given three strings that a caller made from the result of
\* an EncryptHybrid by damaging any number of its parts, and a private key
\* that may or may not be the one of the public key used
DamagedInit ==
    /\ inPlaintext \in PlainTexts
    /\ encPublicKey \in KeyIDs
    /\ decPrivateKey \in KeyIDs
    /\ \E hows \in SUBSET (Damages \ {"none"}) :
          encResult = Ptr(DamageAll(EncryptHybrid(inPlaintext, encPublicKey), hows))
    /\ decResult = Nil

PayloadPrices == {-1, 1}
PayloadTokens == {EmptyID} \cup Uuids

EncryptedBidPrices ==
    {Damage(EncryptHybrid(PayloadJSON(p, t), k), how) :
        p \in PayloadPrices, t \in PayloadTokens, k \in KeyIDs, how \in Damages}

\* an EncryptedCoreBid: the plaintext Price is 0 (unset) or a price
PipeBidders == 1..MaxBatchBids
PlainPrices == {0, MaxPrice}

EncryptedCoreBids ==
    [ID : 1..MaxBatchBids, Bidder : PipeBidders, Price : PlainPrices,
     EncryptedPrice : {Nil} \cup {Ptr(e) : e \in EncryptedBidPrices}]

\* a batch of n bids; a bid's ID is its position in the batch
IsBatch(bs, n) ==
    /\ bs \in [1..n -> EncryptedCoreBids]
    /\ \A i \in 1..n : bs[i].ID = i

KeyManagers == {Nil} \cup {Ptr(k) : k \in KeyIDs}

(***************************************************************************)
(* decryptAllBids, bid by bid in input order.                              *)
(***************************************************************************)
NoOutput == [decrypted |-> <<>>, excluded |-> <<>>, errors |-> <<>>]

\* a pass-through that would leave the price unset
PassThrough_NoPrice(bid) ==
    [ID |-> bid.ID, Bidder |-> bid.Bidder, Price |-> 0, AuctionToken |-> EmptyID]

PassThrough(bid) ==
    [ID |-> bid.ID, Bidder |-> bid.Bidder, Price |-> bid.Price, AuctionToken |-> EmptyID]

Decrypted(bid, payload) ==
    [ID |-> bid.ID, Bidder |-> bid.Bidder,
     Price |-> payload.Price, AuctionToken |-> payload.AuctionToken]

ExclusionRecord(bid) ==
    [BidID |-> bid.ID, Bidder |-> bid.Bidder, Reason |-> "decryption_failed"]

ErrorReport(bid, err) == [BidID |-> bid.ID, Error |-> err]

\* a loop that would stop at the first bid it cannot decrypt
RECURSIVE decryptAllBids_AbortOnFailure(_, _)
decryptAllBids_AbortOnFailure(bs, km) ==
    IF bs = <<>> THEN NoOutput
    ELSE
        LET n == Len(bs)
            bid == bs[n]
            out == decryptAllBids_AbortOnFailure(SubSeq(bs, 1, n - 1), km)
        IN  IF out.errors # <<>> THEN out
            ELSE IF bid.EncryptedPrice = Nil \/ km = Nil
            THEN [out EXCEPT !.decrypted = Append(@, PassThrough(bid))]
            ELSE
                LET e == bid.EncryptedPrice[1]
                    r == DecryptHybrid(e.EncryptedAESKey, e.EncryptedPayload, e.Nonce, km[1])
                IN  IF r.err # ""
                    THEN [out EXCEPT !.excluded = Append(@, ExclusionRecord(bid)),
                                     !.errors = Append(@, ErrorReport(bid, r.err))]
                    ELSE [out EXCEPT !.decrypted =
                                Append(@, Decrypted(bid, Unmarshal(r.plaintext[1])))]

RECURSIVE decryptAllBids(_, _)
decryptAllBids(bs, km) ==
    IF bs = <<>> THEN NoOutput
    ELSE
        LET n == Len(bs)
            bid == bs[n]
            out == decryptAllBids(SubSeq(bs, 1, n - 1), km)
        IN  IF bid.EncryptedPrice = Nil \/ km = Nil
            THEN [out EXCEPT !.decrypted = Append(@, PassThrough(bid))]
            ELSE
                LET e == bid.EncryptedPrice[1]
                    r == DecryptHybrid(e.EncryptedAESKey, e.EncryptedPayload, e.Nonce, km[1])
                IN  IF r.err # ""
                    THEN [out EXCEPT !.excluded = Append(@, ExclusionRecord(bid)),
                                     !.errors = Append(@, ErrorReport(bid, r.err))]
                    ELSE [out EXCEPT !.decrypted =
                                Append(@, Decrypted(bid, Unmarshal(r.plaintext[1])))]

(***************************************************************************)
(* filterBidsByConsumedTokens, bid by bid in the order of decryptedData:   *)
(* the price test first, then the replay test.                             *)
(***************************************************************************)
NoFilterOutput == [admissible |-> <<>>, exclusions |-> <<>>]

ValidPrice_NonNegative(price) == price >= 0

\* a price is admissible when it is strictly greater than zero
ValidPrice(price) == price > 0

IsReplay_AnyToken(token, consumed) == token \in consumed

\* a bid without a token is not subject to the replay test
IsReplay(token, consumed) == token # EmptyID /\ token \in consumed

Admitted(d) == [ID |-> d.ID, Bidder |-> d.Bidder, Price |-> d.Price]

FilterExclusion(d, reason) == [BidID |-> d.ID, Bidder |-> d.Bidder, Reason |-> reason]

\* a filter that would put each bid in front of the ones before it
RECURSIVE filterBidsByConsumedTokens_Reversed(_, _)
filterBidsByConsumedTokens_Reversed(ds, consumed) ==
    IF ds = <<>> THEN NoFilterOutput
    ELSE
        LET d == ds[1]
            out == filterBidsByConsumedTokens_Reversed(Tail(ds), consumed)
        IN  IF ~ValidPrice(d.Price)
            THEN [out EXCEPT !.exclusions = Append(@, FilterExclusion(d, "invalid price"))]
            ELSE IF IsReplay(d.AuctionToken, consumed)
            THEN [out EXCEPT !.exclusions = Append(@, FilterExclusion(d, "replay detected"))]
            ELSE [out EXCEPT !.admissible = Append(@, Admitted(d))]

\* a filter that would apply the replay test before the price test
RECURSIVE filterBidsByConsumedTokens_ReplayFirst(_, _)
filterBidsByConsumedTokens_ReplayFirst(ds, consumed) ==
    IF ds = <<>> THEN NoFilterOutput
    ELSE
        LET n == Len(ds)
            d == ds[n]
            out == filterBidsByConsumedTokens_ReplayFirst(SubSeq(ds, 1, n - 1), consumed)
        IN  IF IsReplay(d.AuctionToken, consumed)
            THEN [out EXCEPT !.exclusions = Append(@, FilterExclusion(d, "replay detected"))]
            ELSE IF ~ValidPrice(d.Price)
            THEN [out EXCEPT !.exclusions = Append(@, FilterExclusion(d, "invalid price"))]
            ELSE [out EXCEPT !.admissible = Append(@, Admitted(d))]

RECURSIVE filterBidsByConsumedTokens(_, _)
filterBidsByConsumedTokens(ds, consumed) ==
    IF ds = <<>> THEN NoFilterOutput
    ELSE
        LET n == Len(ds)
            d == ds[n]
            out == filterBidsByConsumedTokens(SubSeq(ds, 1, n - 1), consumed)
        IN  IF ~ValidPrice(d.Price)
            THEN [out EXCEPT !.exclusions = Append(@, FilterExclusion(d, "invalid price"))]
            ELSE IF IsReplay(d.AuctionToken, consumed)
            THEN [out EXCEPT !.exclusions = Append(@, FilterExclusion(d, "replay detected"))]
            ELSE [out EXCEPT !.admissible = Append(@, Admitted(d))]

\* the sets of token identifiers a caller can give as consumedTokens
ConsumedSets == SUBSET PayloadTokens

FilterIdle ==
    /\ consumedTokens = {}
    /\ filterOut = NoFilterOutput
    /\ filterDone = FALSE

PipeInit ==
    /\ \E n \in 0..MaxBatchBids : IsBatch(encBids, n)
    /\ keyManager \in KeyManagers
    /\ pipeOut = NoOutput
    /\ pipeDone = FALSE
    /\ FilterIdle

PipeIdle ==
    /\ encBids = <<>>
    /\ keyManager = Nil
    /\ pipeOut = NoOutput
    /\ pipeDone = FALSE
    /\ FilterIdle

\* decryptedData, excludedBids, errors := decryptAllBids(encBids, km)
DecryptAll ==
    /\ ~pipeDone
    /\ pipeOut' = decryptAllBids(encBids, keyManager)
    /\ pipeDone' = TRUE
    /\ UNCHANGED <<encBids, keyManager, consumedTokens, filterOut, filterDone>>

\* finalBids, _ := filterBidsByConsumedTokens(decryptedData, consumedTokens)
Filter ==
    /\ pipeDone /\ ~filterDone
    /\ \E consumed \in ConsumedSets :
          /\ consumedTokens' = consumed
          /\ filterOut' = filterBidsByConsumedTokens(pipeOut.decrypted, consumed)
    /\ filterDone' = TRUE
    /\ UNCHANGED <<encBids, keyManager, pipeOut, pipeDone>>

(***************************************************************************)
(* Specifications.                                                         *)
(***************************************************************************)
Init == TMInit /\ RankIdle /\ PipeIdle /\ CryptoIdle /\ SeqIdle /\ CleanupIdle

Next ==
    \/ Tick /\ UNCHANGED <<rankVars, pipeVars, cryptoVars, seqVars, cleanupVars>>
    \/ \E p \in Procs : GenerateToken(p) /\ UNCHANGED <<rankVars, pipeVars, cryptoVars, seqVars, cleanupVars>>
    \/ \E p \in Procs : ValidateToken(p) /\ UNCHANGED <<rankVars, pipeVars, cryptoVars, seqVars, cleanupVars>>
    \/ \E p \in Procs : ValidateAndConsumeToken(p) /\ UNCHANGED <<rankVars, pipeVars, cryptoVars, seqVars, cleanupVars>>
    \/ \E p \in Procs : ConsumeToken(p) /\ UNCHANGED <<rankVars, pipeVars, cryptoVars, seqVars, cleanupVars>>
    \/ \E p \in Procs : ConsumeTokens(p) /\ UNCHANGED <<rankVars, pipeVars, cryptoVars, seqVars, cleanupVars>>
    \/ \E p \in Procs : RemoveExpired(p) /\ UNCHANGED <<rankVars, pipeVars, cryptoVars, seqVars, cleanupVars>>
    \/ \E p \in Procs : Count(p) /\ UNCHANGED <<rankVars, pipeVars, cryptoVars, seqVars, cleanupVars>>

\* the TokenManager under concurrent callers
Spec == Init /\ [][Next]_vars

RankSpecInit ==
    RankInit /\ TMInit /\ PipeIdle /\ CryptoIdle /\ SeqIdle /\ CleanupIdle

RankSpecNext ==
    \/ Rank /\ UNCHANGED <<tmVars, pipeVars, cryptoVars, seqVars, cleanupVars>>
    \/ RankAgain /\ UNCHANGED <<tmVars, pipeVars, cryptoVars, seqVars, cleanupVars>>

\* RankCoreBids applied to every bid list within the bounds
SpecRank == RankSpecInit /\ [][RankSpecNext]_vars

PipeSpecInit ==
    PipeInit /\ TMInit /\ RankIdle /\ CryptoIdle /\ SeqIdle /\ CleanupIdle

PipeSpecNext ==
    \/ DecryptAll /\ UNCHANGED <<tmVars, rankVars, cryptoVars, seqVars, cleanupVars>>
    \/ Filter /\ UNCHANGED <<tmVars, rankVars, cryptoVars, seqVars, cleanupVars>>

\* decryptAllBids applied to every batch and key manager within the bounds
SpecPipeline == PipeSpecInit /\ [][PipeSpecNext]_vars

SeqSpecNext ==
    \/ Tick /\ UNCHANGED <<rankVars, pipeVars, cryptoVars, before, cleanupVars>>
    \/ GenerateToken(Caller) /\ UNCHANGED <<rankVars, pipeVars, cryptoVars, before, cleanupVars>>
    \/ ValidateToken(Caller) /\ UNCHANGED <<rankVars, pipeVars, cryptoVars, before, cleanupVars>>
    \/ ValidateAndConsumeToken(Caller) /\ UNCHANGED <<rankVars, pipeVars, cryptoVars, before, cleanupVars>>
    \/ ConsumeToken(Caller) /\ UNCHANGED <<rankVars, pipeVars, cryptoVars, before, cleanupVars>>
    \/ ConsumeTokens(Caller) /\ UNCHANGED <<rankVars, pipeVars, cryptoVars, before, cleanupVars>>
    \/ SeqRemoveExpired /\ UNCHANGED <<rankVars, pipeVars, cryptoVars, cleanupVars>>

\* the TokenManager called by one goroutine: no concurrent mutation
SpecSeq == Init /\ [][SeqSpecNext]_vars

CleanupSpecNext ==
    \/ Tick /\ UNCHANGED <<rankVars, pipeVars, cryptoVars, seqVars, cleanupVars>>
    \/ GenerateToken(Caller) /\ UNCHANGED <<rankVars, pipeVars, cryptoVars, seqVars, cleanupVars>>
    \/ StartExpirationCleanup /\ UNCHANGED <<rankVars, pipeVars, cryptoVars, seqVars>>
    \/ Cancel /\ UNCHANGED <<rankVars, pipeVars, cryptoVars, seqVars>>
    \/ TickerFire /\ UNCHANGED <<rankVars, pipeVars, cryptoVars, seqVars>>
    \/ SelectDone /\ UNCHANGED <<rankVars, pipeVars, cryptoVars, seqVars>>
    \/ SelectTick /\ UNCHANGED <<rankVars, pipeVars, cryptoVars, seqVars>>
    \/ Sweep /\ UNCHANGED <<rankVars, pipeVars, cryptoVars, seqVars>>

\* the goroutine is scheduled: a RemoveExpired call it is in goes on, and a
\* select that finds ctx.Done() ready again and again takes it in the end
CleanupFairness ==
    /\ WF_vars(Sweep /\ UNCHANGED <<rankVars, pipeVars, cryptoVars, seqVars>>)
    /\ SF_vars(SelectDone /\ UNCHANGED <<rankVars, pipeVars, cryptoVars, seqVars>>)

\* the cleanup goroutine next to a goroutine that issues tokens
SpecCleanup == Init /\ [][CleanupSpecNext]_vars /\ CleanupFairness

\* the ticker goes on firing every interval, and a select that finds a tick
\* in ticker.C again and again takes it in the end
SweepingFairness ==
    /\ WF_vars(TickerFire /\ UNCHANGED <<rankVars, pipeVars, cryptoVars, seqVars>>)
    /\ SF_vars(SelectTick /\ UNCHANGED <<rankVars, pipeVars, cryptoVars, seqVars>>)

\* the cleanup goroutine with its ticker running
SpecSweeping ==
    Init /\ [][CleanupSpecNext]_vars /\ CleanupFairness /\ SweepingFairness

\* the round goes on: RankCoreBids on the bids the filter admitted
RankAdmissible ==
    /\ filterDone
    /\ rankCalls = 0
    /\ bids' = filterOut.admissible
    /\ rankResult' \in RankCoreBids(filterOut.admissible)
    /\ rankCalls' = 1
    /\ UNCHANGED rankPrev

RoundSpecNext ==
    \/ DecryptAll /\ UNCHANGED <<tmVars, rankVars, cryptoVars, seqVars, cleanupVars>>
    \/ Filter /\ UNCHANGED <<tmVars, rankVars, cryptoVars, seqVars, cleanupVars>>
    \/ RankAdmissible /\ UNCHANGED <<tmVars, pipeVars, cryptoVars, seqVars, cleanupVars>>

\* one round from the encrypted batch to the ranking
SpecRound == PipeSpecInit /\ [][RoundSpecNext]_vars

DamagedSpecInit ==
    DamagedInit /\ TMInit /\ RankIdle /\ PipeIdle /\ SeqIdle /\ CleanupIdle

DamagedSpecNext ==
    Decrypt /\ UNCHANGED <<tmVars, rankVars, pipeVars, seqVars, cleanupVars>>

\* DecryptHybrid on inputs with any number of defects
SpecDecrypt == DamagedSpecInit /\ [][DamagedSpecNext]_vars

CryptoSpecInit ==
    CryptoInit /\ TMInit /\ RankIdle /\ PipeIdle /\ SeqIdle /\ CleanupIdle

CryptoSpecNext ==
    \/ Encrypt /\ UNCHANGED <<tmVars, rankVars, pipeVars, seqVars, cleanupVars>>
    \/ Decrypt /\ UNCHANGED <<tmVars, rankVars, pipeVars, seqVars, cleanupVars>>

\* EncryptHybrid then DecryptHybrid on every plaintext and keys within the bounds
SpecCrypto == CryptoSpecInit /\ [][CryptoSpecNext]_vars

(***************************************************************************)
(* Claims about the TokenManager, checked under Spec.                      *)
(***************************************************************************)
Returned(p, op) == pc[p] = "ret" /\ call[p].op = op

\* ValidateAndConsumeToken calls on t that were made while t was in the
\* store and have not returned yet
PendingVAC(t) ==
    {p \in Procs : pc[p] = "ValidateAndConsumeToken" /\ call[p].tokenID = t /\ call[p].live}

\* t left the store by ConsumeToken, ConsumeTokens or RemoveExpired
RemovedByOther(t) == t \in stored /\ t \notin DOMAIN tokens /\ vacTrue[t] = 0

\* C1: when N >= 1 callers invoke ValidateAndConsumeToken with the same live
\* token (and no consume or expiration takes it first), then once all N have
\* returned exactly one has returned true and the others false, the token is
\* gone, and the store lost exactly one entry: the winner's step removed one
\* entry, every loser's step removed none.
C1_ExactlyOneWinner ==
    /\ \A t \in Uuids :
         (vacCalls[t] >= 1 /\ PendingVAC(t) = {} /\ ~RemovedByOther(t))
            => (vacTrue[t] = 1 /\ t \notin DOMAIN tokens)
    /\ \A p \in Procs :
         Returned(p, "ValidateAndConsumeToken")
            => call[p].removedHere = (IF call[p].retBool THEN 1 ELSE 0)

C1_Witness ==
    \E t \in Uuids :
       /\ vacCalls[t] = NProcs
       /\ vacTrue[t] = 1
       /\ \A p \in Procs :
            Returned(p, "ValidateAndConsumeToken") /\ call[p].tokenID = t /\ call[p].live
       /\ Cardinality({p \in Procs : call[p].retBool}) = 1
       /\ Cardinality({p \in Procs : ~call[p].retBool}) = NProcs - 1

\* C2: a ValidateToken or ValidateAndConsumeToken call made for an identifier
\* that has already been removed from the store returns false, whatever
\* GenerateToken, consume and expiration calls run besides it; and at most one
\* ValidateAndConsumeToken call returns true per issued token.
C2_NeverValidAgain ==
    /\ \A p \in Procs :
         ( /\ pc[p] = "ret"
           /\ call[p].op \in {"ValidateToken", "ValidateAndConsumeToken"}
           /\ call[p].tokenID \in Uuids
           /\ ~call[p].live )
            => ~call[p].retBool
    /\ \A t \in Uuids : vacTrue[t] <= 1

C2_Witness ==
    \E p \in Procs, q \in Procs :
       /\ p # q
       /\ Returned(p, "ValidateAndConsumeToken")
       /\ call[p].tokenID \in Uuids /\ ~call[p].live /\ ~call[p].retBool
       /\ Returned(q, "ValidateToken")
       /\ call[q].tokenID = call[p].tokenID /\ ~call[q].live /\ ~call[q].retBool
       /\ vacTrue[call[p].tokenID] = 1
       /\ Cardinality(stored) = MaxTokens

\* C3: the value RemoveExpired returns equals the number of entries that this
\* call itself removed from the store.
C3_ReturnsOwnRemovals ==
    \A p \in Procs :
       Returned(p, "RemoveExpired") => call[p].retInt = call[p].removedHere

(***************************************************************************)
(* Claims about RankCoreBids, checked under SpecRank.                      *)
(***************************************************************************)
Ranked == rankCalls >= 1

\* the distinct bidders of the input
InputBidders == {bids[i].Bidder : i \in 1..Len(bids)}

\* the price of the bid HighestBids keeps for b
RetainedPrice(r, b) == bids[r.HighestBids[b]].Price

\* position of b's first bid in the input
FirstBid(b) == CHOOSE i \in 1..Len(bids) :
                  bids[i].Bidder = b /\ \A j \in 1..(i - 1) : bids[j].Bidder # b

\* C5: Ranks, HighestBids and SortedBidders each have exactly one entry per
\* distinct bidder of the input (none for the empty list), and the rank values
\* are exactly 1..N, N the number of distinct bidders.
C5_OneEntryPerBidder ==
    Ranked =>
       LET r == rankResult
           N == Cardinality(InputBidders)
       IN  /\ DOMAIN r.Ranks = InputBidders
           /\ DOMAIN r.HighestBids = InputBidders
           /\ Len(r.SortedBidders) = N
           /\ {r.SortedBidders[i] : i \in 1..N} = InputBidders
           /\ {r.Ranks[b] : b \in InputBidders} = 1..N

C5_Witness ==
    /\ Ranked
    /\ Len(bids) = MaxBids
    /\ Cardinality(InputBidders) = 2
    /\ {rankResult.Ranks[b] : b \in InputBidders} = {1, 2}

C5_WitnessEmpty == Ranked /\ bids = <<>> /\ rankResult = EmptyRanking

\* C6: for every bidder b, Ranks[b] is 1 + the (0-based) index of b in
\* SortedBidders, and HighestBids[b] is a bid of b from the input whose price
\* is >= the price of every input bid of b.
C6_OutputsAgree ==
    Ranked =>
       \A b \in DOMAIN rankResult.Ranks :
          /\ rankResult.Ranks[b] \in 1..Len(rankResult.SortedBidders)
          /\ rankResult.SortedBidders[rankResult.Ranks[b]] = b
          /\ rankResult.HighestBids[b] \in 1..Len(bids)
          /\ bids[rankResult.HighestBids[b]].Bidder = b
          /\ \A j \in 1..Len(bids) :
                bids[j].Bidder = b => RetainedPrice(rankResult, b) >= bids[j].Price

C6_Witness ==
    /\ Ranked
    /\ \E b \in DOMAIN rankResult.Ranks :
          /\ rankResult.Ranks[b] = 2
          /\ \E j \in 1..Len(bids) :
                bids[j].Bidder = b /\ bids[j].Price < RetainedPrice(rankResult, b)

\* C7: SortedBidders is in descending order of retained price (ties allowed),
\* so the rank-1 bidder's retained bid has a price >= every bid of the input.
C7_SortedDescending ==
    Ranked =>
       LET r == rankResult
       IN  /\ \A i, j \in 1..Len(r.SortedBidders) :
                i < j => RetainedPrice(r, r.SortedBidders[i]) >= RetainedPrice(r, r.SortedBidders[j])
           /\ Len(bids) > 0 =>
                \A k \in 1..Len(bids) : RetainedPrice(r, r.SortedBidders[1]) >= bids[k].Price

C7_Witness ==
    /\ Ranked
    /\ Len(rankResult.SortedBidders) = MaxBids
    /\ RetainedPrice(rankResult, rankResult.SortedBidders[1])
          > RetainedPrice(rankResult, rankResult.SortedBidders[MaxBids])
    /\ FirstBid(rankResult.SortedBidders[1]) > 1

\* C8: two calls of RankCoreBids on the same bid list return the same
\* SortedBidders and Ranks, and two bidders whose retained prices are equal
\* appear in SortedBidders in the order of their first appearance in the input.
C8_DeterministicStable ==
    /\ rankCalls = 2 =>
          /\ rankPrev.SortedBidders = rankResult.SortedBidders
          /\ rankPrev.Ranks = rankResult.Ranks
    /\ Ranked =>
          \A b, c \in DOMAIN rankResult.Ranks :
             ( /\ RetainedPrice(rankResult, b) = RetainedPrice(rankResult, c)
               /\ FirstBid(b) < FirstBid(c) )
                => rankResult.Ranks[b] < rankResult.Ranks[c]

\* C9: when a bidder has several bids at its highest price, HighestBids keeps
\* the first of them in input order.
C9_FirstOfEqualsKept ==
    Ranked =>
       \A b \in DOMAIN rankResult.HighestBids :
          \A j \in 1..Len(bids) :
             (bids[j].Bidder = b /\ bids[j].Price = RetainedPrice(rankResult, b))
                => rankResult.HighestBids[b] <= j

C9_Witness ==
    /\ Ranked
    /\ \E b \in DOMAIN rankResult.HighestBids :
          \E j \in 1..Len(bids) :
             /\ j > rankResult.HighestBids[b]
             /\ bids[j].Bidder = b
             /\ bids[j].Price = RetainedPrice(rankResult, b)
             /\ \E k \in 1..Len(bids) : bids[k].Bidder = b /\ bids[k].Price < bids[j].Price

(***************************************************************************)
(* Claims about decryptAllBids, checked under SpecPipeline.                *)
(***************************************************************************)
HasKey == keyManager # Nil

Encrypted(i) == encBids[i].EncryptedPrice # Nil

EncOf(i) == encBids[i].EncryptedPrice[1]

\* the EncryptedPrice of bid i is what EncryptHybrid makes for the key
\* manager's key: three well-formed base64 fields, a 32-byte AES key wrapped
\* for that key, a 12-byte nonce, and the payload as it was sealed under them
WellSealed(i) ==
    LET e == EncOf(i) IN
    /\ e.EncryptedAESKey.valid /\ e.EncryptedPayload.valid /\ e.Nonce.valid
    /\ e.EncryptedAESKey.bytes.pub = keyManager[1]
    /\ e.EncryptedAESKey.bytes.msg.len = AESKeyLen
    /\ e.Nonce.bytes.len = GCMNonceSize
    /\ e.EncryptedPayload.bytes.key = e.EncryptedAESKey.bytes.msg.id
    /\ e.EncryptedPayload.bytes.nonce = e.Nonce.bytes.id
    /\ e.EncryptedPayload.bytes.intact

Undecryptable(i) == Encrypted(i) /\ ~WellSealed(i)

Positions(seq, P(_)) == {j \in 1..Len(seq) : P(seq[j])}

\* C4: with a key manager present, every bid whose EncryptedPrice cannot be
\* decrypted (malformed base64, wrong key, tampering, bad lengths) gives
\* exactly one ExclusionRecord with its id and bidder and exactly one error
\* report and no decrypted bid; every other bid of the batch gives exactly
\* one decrypted bid and no exclusion; so decrypted + excluded = input and
\* excluded = errors in length.
C4_FailureIsolated ==
    (pipeDone /\ HasKey) =>
        /\ \A i \in 1..Len(encBids) :
              LET dec == Positions(pipeOut.decrypted, LAMBDA d : d.ID = i)
                  exc == Positions(pipeOut.excluded, LAMBDA x : x.BidID = i)
                  err == Positions(pipeOut.errors, LAMBDA r : r.BidID = i)
              IN  IF Undecryptable(i)
                  THEN /\ Cardinality(exc) = 1
                       /\ \A j \in exc : pipeOut.excluded[j].Bidder = encBids[i].Bidder
                       /\ Cardinality(err) = 1
                       /\ dec = {}
                  ELSE /\ Cardinality(dec) = 1
                       /\ exc = {}
                       /\ err = {}
        /\ Len(pipeOut.decrypted) + Len(pipeOut.excluded) = Len(encBids)
        /\ Len(pipeOut.excluded) = Len(pipeOut.errors)

\* a batch whose first bid cannot be decrypted (tampered, or sealed for
\* another key) and whose second one can: the second is still processed
C4_Witness ==
    /\ pipeDone /\ HasKey
    /\ Len(encBids) = MaxBatchBids
    /\ Undecryptable(1)
    /\ EncOf(1).EncryptedAESKey.valid /\ EncOf(1).EncryptedPayload.valid
    /\ EncOf(1).Nonce.valid
    /\ Encrypted(Len(encBids)) /\ WellSealed(Len(encBids))
    /\ Len(pipeOut.excluded) = 1 /\ Len(pipeOut.errors) = 1
    /\ Len(pipeOut.decrypted) = Len(encBids) - 1

\* the payload the bidder sealed in the EncryptedPrice of bid i
SealedPayload(i) == EncOf(i).EncryptedPayload.bytes.pt

\* C10: when a bid carries an EncryptedPrice and decryption succeeds, the
\* decrypted bid has the price of the sealed payload, whatever the bid's
\* plaintext Price field holds, and the payload's auction token (none when
\* the payload has none).
C10_DecryptedPriceWins ==
    (pipeDone /\ HasKey) =>
        \A i \in 1..Len(encBids) :
            (Encrypted(i) /\ WellSealed(i)) =>
                \E j \in 1..Len(pipeOut.decrypted) :
                    LET d == pipeOut.decrypted[j] IN
                    /\ d.ID = i
                    /\ d.Bidder = encBids[i].Bidder
                    /\ d.Price = SealedPayload(i).price
                    /\ IF "auction_token" \in DOMAIN SealedPayload(i)
                       THEN d.AuctionToken = SealedPayload(i).auction_token
                       ELSE d.AuctionToken = EmptyID

\* a decrypted bid whose plaintext Price was set and differs from the sealed
\* price, and whose payload carries a token
C10_Witness ==
    /\ pipeDone /\ HasKey
    /\ \E i \in 1..Len(encBids) :
          /\ Encrypted(i) /\ WellSealed(i)
          /\ encBids[i].Price = MaxPrice
          /\ encBids[i].Price # SealedPayload(i).price
          /\ "auction_token" \in DOMAIN SealedPayload(i)
          /\ \E j \in 1..Len(pipeOut.decrypted) :
                /\ pipeOut.decrypted[j].ID = i
                /\ pipeOut.decrypted[j].Price = SealedPayload(i).price
                /\ pipeOut.decrypted[j].AuctionToken \in Uuids

(***************************************************************************)
(* Claims about filterBidsByConsumedTokens applied to what decryptAllBids  *)
(* returned, checked under SpecPipeline.                                   *)
(***************************************************************************)
DecryptedIDs == {pipeOut.decrypted[j].ID : j \in 1..Len(pipeOut.decrypted)}

\* the decrypted bid with identifier i
DecryptedBid(i) ==
    pipeOut.decrypted[CHOOSE j \in 1..Len(pipeOut.decrypted) : pipeOut.decrypted[j].ID = i]

AdmittedAt(i) == Positions(filterOut.admissible, LAMBDA a : a.ID = i)

ExcludedAt(i) == Positions(filterOut.exclusions, LAMBDA x : x.BidID = i)

\* C11: every admitted bid has a price strictly greater than zero; every
\* decrypted bid with a price <= 0 (also a negative price that decrypted
\* without error) is not admitted and has one exclusion, with reason
\* "invalid price", and no decryption error report.
C11_InvalidPriceExcluded ==
    filterDone =>
        /\ \A j \in 1..Len(filterOut.admissible) : filterOut.admissible[j].Price > 0
        /\ \A i \in DecryptedIDs :
              DecryptedBid(i).Price <= 0 =>
                  /\ AdmittedAt(i) = {}
                  /\ Cardinality(ExcludedAt(i)) = 1
                  /\ \A j \in ExcludedAt(i) :
                        /\ filterOut.exclusions[j].Reason = "invalid price"
                        /\ filterOut.exclusions[j].Bidder = encBids[i].Bidder
                  /\ Positions(pipeOut.errors, LAMBDA r : r.BidID = i) = {}

\* a sealed negative price that decrypts without error and is then excluded
C11_Witness ==
    /\ filterDone /\ HasKey
    /\ Len(encBids) = 1
    /\ Encrypted(1) /\ WellSealed(1)
    /\ SealedPayload(1).price < 0
    /\ pipeOut.errors = <<>> /\ pipeOut.excluded = <<>>
    /\ filterOut.admissible = <<>>
    /\ Len(filterOut.exclusions) = 1
    /\ filterOut.exclusions[1].Reason = "invalid price"

\* C12: a decrypted bid with a valid price is excluded, with reason "replay
\* detected", when its auction token is in consumedTokens; when it carries
\* no token, or a token that is not in consumedTokens, it is admitted and
\* has no exclusion.
C12_ReplayExcluded ==
    filterDone =>
        \A i \in DecryptedIDs :
            LET d == DecryptedBid(i) IN
            d.Price > 0 =>
                IF d.AuctionToken # EmptyID /\ d.AuctionToken \in consumedTokens
                THEN /\ AdmittedAt(i) = {}
                     /\ Cardinality(ExcludedAt(i)) = 1
                     /\ \A j \in ExcludedAt(i) :
                           filterOut.exclusions[j].Reason = "replay detected"
                ELSE /\ Cardinality(AdmittedAt(i)) = 1
                     /\ ExcludedAt(i) = {}

\* a batch with a valid-price bid whose token is consumed, excluded for
\* replay, and a valid-price bid without a token, admitted although the
\* empty identifier is in consumedTokens
C12_Witness ==
    /\ filterDone
    /\ Len(pipeOut.decrypted) = MaxBatchBids
    /\ EmptyID \in consumedTokens
    /\ \E i, k \in DecryptedIDs :
          /\ DecryptedBid(i).Price > 0 /\ DecryptedBid(k).Price > 0
          /\ DecryptedBid(i).AuctionToken \in Uuids \cap consumedTokens
          /\ DecryptedBid(k).AuctionToken = EmptyID
          /\ AdmittedAt(i) = {} /\ AdmittedAt(k) # {}
          /\ \E j \in ExcludedAt(i) : filterOut.exclusions[j].Reason = "replay detected"

\* the auction token of the admitted bid with identifier i
AdmittedToken(i) == DecryptedBid(i).AuctionToken

AdmittedIDs == {filterOut.admissible[j].ID : j \in 1..Len(filterOut.admissible)}

\* C13: a token authorizes at most one accepted bid: no admitted bid
\* carries a token that is in consumedTokens, and no two admitted bids of
\* one round carry the same token.
C13_TokenAdmitsOnce ==
    filterDone =>
        /\ \A i \in AdmittedIDs :
              AdmittedToken(i) # EmptyID => AdmittedToken(i) \notin consumedTokens
        /\ \A i, k \in AdmittedIDs :
              (i # k /\ AdmittedToken(i) # EmptyID) => AdmittedToken(i) # AdmittedToken(k)

\* the bids of the batch that decryptAllBids cannot resolve
Failing(i) == HasKey /\ Undecryptable(i)

\* the elements of S in increasing order
RECURSIVE Ascending(_)
Ascending(S) ==
    IF S = {} THEN <<>>
    ELSE LET m == CHOOSE x \in S : \A y \in S : y <= x
         IN  Append(Ascending(S \ {m}), m)

IDsOf(seq, Field(_)) == [j \in 1..Len(seq) |-> Field(seq[j])]

IsSubsequence(sub, seq) ==
    \E f \in [1..Len(sub) -> 1..Len(seq)] :
        /\ \A j \in 1..Len(sub) : seq[f[j]] = sub[j]
        /\ \A j, k \in 1..Len(sub) : j < k => f[j] < f[k]

\* C14: decryptedBids is the input with the failed bids removed, in input
\* order; excludedBids and errorReports list the failed bids in input
\* order; the admissible list is a subsequence of decryptedBids.  A bid's
\* ID is its position in the input.
C14_OrderPreserved ==
    /\ pipeDone =>
          /\ IDsOf(pipeOut.decrypted, LAMBDA d : d.ID) =
                 Ascending({i \in 1..Len(encBids) : ~Failing(i)})
          /\ IDsOf(pipeOut.excluded, LAMBDA x : x.BidID) =
                 Ascending({i \in 1..Len(encBids) : Failing(i)})
          /\ IDsOf(pipeOut.errors, LAMBDA r : r.BidID) =
                 Ascending({i \in 1..Len(encBids) : Failing(i)})
    /\ filterDone =>
          IsSubsequence(filterOut.admissible,
                        [j \in 1..Len(pipeOut.decrypted) |-> Admitted(pipeOut.decrypted[j])])

\* a full batch in which every bid is resolved and admitted, the first one
\* decrypted and the last one passed through
C14_Witness ==
    /\ filterDone /\ HasKey
    /\ Len(encBids) = MaxBatchBids
    /\ Encrypted(1) /\ WellSealed(1)
    /\ ~Encrypted(Len(encBids))
    /\ Len(filterOut.admissible) = Len(encBids)
    /\ filterOut.admissible[1].ID = 1
    /\ filterOut.admissible[1].Price # filterOut.admissible[Len(encBids)].Price

\* C15: without a key manager, decryptAllBids returns every input bid, in
\* input order, with its id, its bidder and the plaintext price it carries,
\* whether or not it has an EncryptedPrice, and no exclusion and no error
\* report.
C15_NilKeyManagerPassesAll ==
    (pipeDone /\ keyManager = Nil) =>
        /\ pipeOut.excluded = <<>>
        /\ pipeOut.errors = <<>>
        /\ Len(pipeOut.decrypted) = Len(encBids)
        /\ \A i \in 1..Len(encBids) :
              /\ pipeOut.decrypted[i].ID = encBids[i].ID
              /\ pipeOut.decrypted[i].Bidder = encBids[i].Bidder
              /\ pipeOut.decrypted[i].Price = encBids[i].Price

\* no key manager, and a bid that carries both a plaintext price and an
\* EncryptedPrice sealing another price
C15_Witness ==
    /\ pipeDone /\ keyManager = Nil
    /\ Len(encBids) = MaxBatchBids
    /\ Encrypted(1)
    /\ encBids[1].Price = MaxPrice
    /\ SealedPayload(1).price # MaxPrice
    /\ Len(pipeOut.decrypted) = Len(encBids)
    /\ pipeOut.decrypted[1].Price = MaxPrice

\* C16: a bid without an EncryptedPrice gives exactly one decrypted bid,
\* with the same id, bidder and plaintext price, and no exclusion and no
\* error report, whatever the other bids of the batch are.
C16_PlainBidUnchanged ==
    pipeDone =>
        \A i \in 1..Len(encBids) :
            ~Encrypted(i) =>
                /\ Cardinality(Positions(pipeOut.decrypted, LAMBDA d : d.ID = i)) = 1
                /\ \A j \in Positions(pipeOut.decrypted, LAMBDA d : d.ID = i) :
                      /\ pipeOut.decrypted[j].Bidder = encBids[i].Bidder
                      /\ pipeOut.decrypted[j].Price = encBids[i].Price
                /\ Positions(pipeOut.excluded, LAMBDA x : x.BidID = i) = {}
                /\ Positions(pipeOut.errors, LAMBDA r : r.BidID = i) = {}

\* a plaintext bid that comes after a bid that cannot be decrypted
C16_Witness ==
    /\ pipeDone /\ HasKey
    /\ Len(encBids) = MaxBatchBids
    /\ Failing(1)
    /\ ~Encrypted(Len(encBids))
    /\ encBids[Len(encBids)].Price = MaxPrice
    /\ Len(pipeOut.excluded) = 1
    /\ Len(pipeOut.decrypted) = 1
    /\ pipeOut.decrypted[1].ID = Len(encBids)
    /\ pipeOut.decrypted[1].Price = MaxPrice

(***************************************************************************)
(* Claims about EncryptHybrid and DecryptHybrid, checked under SpecCrypto. *)
(***************************************************************************)
\* C17: DecryptHybrid, given the three outputs of EncryptHybrid(x, pub) and
\* the private key of pub, returns no error and exactly x, for every byte
\* string x, the empty one included.
C17_RoundTrip ==
    (decResult # Nil /\ decPrivateKey = encPublicKey) =>
        /\ decResult[1].err = ""
        /\ decResult[1].plaintext = Ptr(inPlaintext)

\* the round trip of a plaintext of the greatest length
C17_Witness ==
    /\ decResult # Nil
    /\ decPrivateKey = encPublicKey
    /\ Len(inPlaintext) = MaxPlainLen
    /\ \E j, k \in 1..Len(inPlaintext) : inPlaintext[j] # inPlaintext[k]
    /\ decResult[1].plaintext = Ptr(inPlaintext)

\* the round trip of the empty plaintext
C17_WitnessEmpty ==
    /\ decResult # Nil
    /\ decPrivateKey = encPublicKey
    /\ inPlaintext = <<>>
    /\ decResult[1].err = ""

\* C18: DecryptHybrid, given the outputs of EncryptHybrid(x, pub) and a
\* private key that is not the one of pub, returns an error and no
\* plaintext.
C18_WrongKeyFails ==
    (decResult # Nil /\ decPrivateKey # encPublicKey) =>
        /\ decResult[1].err # ""
        /\ decResult[1].plaintext = Nil

\* a non-empty plaintext decrypted with the private key of another pair
C18_Witness ==
    /\ decResult # Nil
    /\ decPrivateKey # encPublicKey
    /\ inPlaintext # <<>>
    /\ decResult[1].err = "failed to decrypt AES key"

(***************************************************************************)
(* Claims about the TokenManager called by one goroutine, checked under    *)
(* SpecSeq.                                                                *)
(***************************************************************************)
\* the age of an entry of the store as RemoveExpired measures it: from its
\* creation to the time the call read as now
AgeAt(now, createdAt) == now - createdAt

\* C19: a RemoveExpired(maxAge) call that nothing runs concurrently with
\* removes exactly the tokens whose age is strictly greater than maxAge,
\* leaves every other token in the store as it was, and returns the
\* number of tokens it removed: count after = count before - returned.
C19_RemovesExactlyExpired ==
    Returned(Caller, "RemoveExpired") =>
        LET c == call[Caller] IN
        /\ DOMAIN tokens =
              {t \in DOMAIN before : AgeAt(c.now, before[t]) <= c.maxAge}
        /\ \A t \in DOMAIN tokens : tokens[t] = before[t]
        /\ c.retInt = Cardinality(DOMAIN before) - Cardinality(DOMAIN tokens)
        /\ c.retInt =
              Cardinality({t \in DOMAIN before : AgeAt(c.now, before[t]) > c.maxAge})

\* a call that found one token older than maxAge and one that is not:
\* it removed the first, kept the second and returned 1
C19_Witness ==
    /\ Returned(Caller, "RemoveExpired")
    /\ Cardinality(DOMAIN before) = MaxTokens
    /\ Cardinality(DOMAIN tokens) = MaxTokens - 1
    /\ call[Caller].retInt = 1
    /\ \E t \in DOMAIN before : AgeAt(call[Caller].now, before[t]) > call[Caller].maxAge
    /\ \E t \in DOMAIN tokens : AgeAt(call[Caller].now, tokens[t]) = call[Caller].maxAge

(***************************************************************************)
(* Claims about StartExpirationCleanup, checked under SpecCleanup.         *)
(***************************************************************************)
\* once the context is canceled the goroutine exits
CleanupEventuallyExits == (ctxDone /\ cleanup = "running") ~> (cleanup = "exited")

\* the goroutine begins at most one RemoveExpired call after the cancel
AtMostOneSweepAfterCancel == sweepsAfterCancel <= 1

\* after it has exited the goroutine makes no step of a RemoveExpired call
NoSweepAfterExit ==
    [][cleanup = "exited" => (call'[Cleaner] = call[Cleaner] /\ pc'[Cleaner] = pc[Cleaner])]_vars

\* C20: after the context is canceled the cleanup goroutine eventually
\* exits, it begins at most one further RemoveExpired call after the
\* cancel, and none after it has exited.
C20_StopsWithinOneTick ==
    /\ CleanupEventuallyExits
    /\ []AtMostOneSweepAfterCancel
    /\ NoSweepAfterExit

(***************************************************************************)
(* Claims about ConsumeToken and ConsumeTokens, checked under Spec.        *)
(***************************************************************************)
\* the identifiers a ConsumeToken or ConsumeTokens call of p was given
Listed(p) ==
    IF call[p].op = "ConsumeTokens" THEN {call[p].batch[i] : i \in DOMAIN call[p].batch}
    ELSE {call[p].tokenID}

\* this step is the Delete of a ConsumeToken call of p
ConsumeTokenStep(p) ==
    /\ Free(p)
    /\ nCalls' = nCalls + 1
    /\ pc'[p] = "ret"
    /\ call'[p].op = "ConsumeToken"
    /\ \A q \in Procs \ {p} : pc'[q] = pc[q] /\ call'[q] = call[q]

\* this step is one Delete of the loop of a ConsumeTokens call of p
ConsumeTokensStep(p) == pc[p] = "ConsumeTokens" /\ call'[p] # call[p]

\* once a consume call has returned, what it listed is not in the store
ListedAbsent ==
    \A p \in Procs :
        Returned(p, "ConsumeToken") \/ Returned(p, "ConsumeTokens")
            => \A t \in Listed(p) : ~MapLoad(tokens, t)

\* a Delete of a consume call leaves every token it did not list as it was
UnlistedUnchanged ==
    \A p \in Procs :
        /\ ConsumeTokenStep(p) =>
              \A t \in DOMAIN tokens \ {call'[p].tokenID} :
                  t \in DOMAIN tokens' /\ tokens'[t] = tokens[t]
        /\ ConsumeTokensStep(p) =>
              \A t \in DOMAIN tokens \ Listed(p) :
                  t \in DOMAIN tokens' /\ tokens'[t] = tokens[t]

\* two ConsumeTokens calls over disjoint batches, and no other call that
\* removes: what is gone from the store is the union of the batches
DisjointBatchesRemoveUnion ==
    \A p, q \in Procs :
        /\ p # q
        /\ Returned(p, "ConsumeTokens") /\ Returned(q, "ConsumeTokens")
        /\ Listed(p) \cap Listed(q) = {}
        /\ nCalls = 2
        => DOMAIN tokens = stored \ (Listed(p) \cup Listed(q))

\* C21: ConsumeToken and ConsumeTokens remove without condition: whether
\* or not an identifier they list is in the store (absent, listed twice,
\* mixed with present ones), the call returns, what it listed is absent
\* afterwards, and every token it did not list is unchanged; concurrent
\* ConsumeTokens calls over disjoint batches remove exactly the union of
\* the batches.
C21_ConsumeIsUnconditional ==
    /\ []ListedAbsent
    /\ [][UnlistedUnchanged]_vars
    /\ []DisjointBatchesRemoveUnion

\* two concurrent ConsumeTokens calls over disjoint batches have returned,
\* one of them listed a token of the store together with a string that is
\* no token, and both tokens of the store are gone
C21_Witness ==
    \E p, q \in Procs :
        /\ p # q
        /\ Returned(p, "ConsumeTokens") /\ Returned(q, "ConsumeTokens")
        /\ Listed(p) \cap Listed(q) = {}
        /\ nCalls = 2
        /\ NonexistentID \in Listed(p)
        /\ Listed(p) \cap stored # {}
        /\ Listed(q) \cap stored # {}
        /\ Cardinality(stored) = MaxTokens
        /\ DOMAIN tokens = {}

(***************************************************************************)
(* Claims about GenerateToken and Count, checked under Spec.               *)
(***************************************************************************)
\* no token has left the store: identifiers are never stored twice, so the
\* store then holds every identifier GenerateToken has returned
NoRemovals == DOMAIN tokens = stored

\* the Store of GenerateToken puts a new identifier into the store
ReturnsFreshAndStores ==
    \A p \in Procs :
        pc[p] = "GenerateToken.Store" /\ pc'[p] = "ret"
            => /\ call[p].tokenID \notin stored
               /\ call[p].tokenID \in Uuids
               /\ MapLoad(tokens', call[p].tokenID)
               /\ tokens'[call[p].tokenID] = call[p].createdAt
               /\ \A t \in DOMAIN tokens : MapLoad(tokens', t) /\ tokens'[t] = tokens[t]

\* with no removal, Count returns at least the number of GenerateToken calls
\* that had returned when it was called and at most the number that have
\* returned by now: exactly k when no GenerateToken call overlaps it
CountIsIssued ==
    \A p \in Procs :
        Returned(p, "Count") /\ NoRemovals
            => /\ Cardinality(call[p].snap) <= call[p].retInt
               /\ call[p].retInt <= Cardinality(stored)
               /\ call[p].snap = stored => call[p].retInt = Cardinality(stored)

\* with no removal, ValidateToken is true of every identifier returned
IssuedIsValid ==
    \A p \in Procs :
        Returned(p, "ValidateToken") /\ NoRemovals /\ call[p].tokenID \in stored
            => call[p].retBool

\* C22: every GenerateToken call returns an identifier that no earlier call
\* returned and stores it; after k GenerateToken calls, interleaved in any
\* way, and no removal, Count returns k and ValidateToken returns true for
\* each identifier returned.
C22_IssuedTokensAreDistinctAndCounted ==
    /\ [][ReturnsFreshAndStores]_vars
    /\ []CountIsIssued
    /\ []IssuedIsValid

\* MaxTokens GenerateToken calls have returned and nothing was removed; a
\* Count called after them returned MaxTokens and a ValidateToken of one of
\* the identifiers returned true
C22_Witness ==
    \E p, q \in Procs :
        /\ NoRemovals
        /\ Cardinality(stored) = MaxTokens
        /\ Returned(p, "Count")
        /\ call[p].snap = stored
        /\ call[p].retInt = MaxTokens
        /\ Returned(q, "ValidateToken")
        /\ call[q].tokenID \in stored
        /\ call[q].retBool

(***************************************************************************)
(* Claims about the validating calls and the store, checked under Spec.    *)
(***************************************************************************)
\* a ValidateToken or ValidateAndConsumeToken call given "" returned false
EmptyIsRefused ==
    \A p \in Procs :
        /\ Returned(p, "ValidateToken") \/ Returned(p, "ValidateAndConsumeToken")
        /\ call[p].tokenID = EmptyID
        => ~call[p].retBool

\* this step is a ValidateToken call of p
ValidateTokenStep(p) ==
    /\ Free(p)
    /\ nCalls' = nCalls + 1
    /\ pc'[p] = "ret"
    /\ call'[p].op = "ValidateToken"
    /\ \A q \in Procs \ {p} : pc'[q] = pc[q] /\ call'[q] = call[q]

\* this step is the call or the return of a ValidateAndConsumeToken("") of p
VACEmptyStep(p) ==
    \/ pc[p] = "ValidateAndConsumeToken" /\ pc'[p] = "ret" /\ call[p].tokenID = EmptyID
    \/ pc[p] # "ValidateAndConsumeToken" /\ pc'[p] = "ValidateAndConsumeToken"
          /\ call'[p].tokenID = EmptyID

\* a ValidateToken call, and a ValidateAndConsumeToken("") call, leave the
\* store as it was
ValidationLeavesStore ==
    \A p \in Procs : ValidateTokenStep(p) \/ VACEmptyStep(p) => tokens' = tokens

\* C23: ValidateToken and ValidateAndConsumeToken called with the empty
\* identifier return false and leave the store unchanged, whatever the
\* store holds; ValidateToken leaves the store unchanged for every
\* identifier.
C23_EmptyRefusedStoreUntouched ==
    /\ []EmptyIsRefused
    /\ [][ValidationLeavesStore]_vars

\* with a full store, a ValidateToken("") and a ValidateAndConsumeToken("")
\* have returned false and the store is still full
C23_Witness ==
    \E p, q \in Procs :
        /\ Returned(p, "ValidateToken") /\ call[p].tokenID = EmptyID /\ ~call[p].retBool
        /\ Returned(q, "ValidateAndConsumeToken") /\ call[q].tokenID = EmptyID
        /\ ~call[q].retBool
        /\ Cardinality(DOMAIN tokens) = MaxTokens

(***************************************************************************)
(* Claims about ValidateAndConsumeToken on distinct tokens, under Spec.    *)
(***************************************************************************)
\* the LoadAndDelete of a ValidateAndConsumeToken call takes out at most the
\* token it was given and leaves every other token as it was
VACTouchesOwnKeyOnly ==
    \A p \in Procs :
        pc[p] = "ValidateAndConsumeToken" /\ pc'[p] = "ret"
            => /\ DOMAIN tokens \ DOMAIN tokens' \subseteq {call[p].tokenID}
               /\ DOMAIN tokens' \subseteq DOMAIN tokens
               /\ \A t \in DOMAIN tokens' : tokens'[t] = tokens[t]

\* two calls, each given a token of its own that was in the store, and no
\* other call: both returned true and both tokens are gone
DistinctTokensAllConsumed ==
    \A p, q \in Procs :
        /\ p # q
        /\ Returned(p, "ValidateAndConsumeToken") /\ Returned(q, "ValidateAndConsumeToken")
        /\ call[p].tokenID # call[q].tokenID
        /\ call[p].live /\ call[q].live
        /\ nCalls = 2
        => /\ call[p].retBool /\ call[q].retBool
           /\ ~MapLoad(tokens, call[p].tokenID)
           /\ ~MapLoad(tokens, call[q].tokenID)
           /\ DOMAIN tokens = stored \ {call[p].tokenID, call[q].tokenID}

\* C24: a ValidateAndConsumeToken call on token A removes at most A and
\* never changes whether another token is in the store; when distinct live
\* tokens are each consumed by one concurrent ValidateAndConsumeToken call,
\* every call returns true under every interleaving and the store ends
\* without those tokens.
C24_IndependentPerKey ==
    /\ [][VACTouchesOwnKeyOnly]_vars
    /\ []DistinctTokensAllConsumed

\* two ValidateAndConsumeToken calls on the two tokens of the store have
\* both returned true, and the store is empty
C24_Witness ==
    \E p, q \in Procs :
        /\ p # q
        /\ Returned(p, "ValidateAndConsumeToken") /\ Returned(q, "ValidateAndConsumeToken")
        /\ call[p].tokenID # call[q].tokenID
        /\ call[p].live /\ call[q].live
        /\ call[p].retBool /\ call[q].retBool
        /\ nCalls = 2
        /\ Cardinality(stored) = MaxTokens
        /\ DOMAIN tokens = {}

(***************************************************************************)
(* Claims about the sweeps of the cleanup goroutine, under SpecSweeping.   *)
(* The goroutine is the only one that removes tokens there.  A state       *)
(* leaves room for a further sweep when nCalls < MaxCalls.                 *)
(***************************************************************************)
\* t is in the store and older than the maxAge the goroutine was given
Overdue(t) == MapLoad(tokens, t) /\ AgeAt(clock, tokens[t]) > cleanupMaxAge

\* while the context is not canceled, an overdue token leaves the store
OverdueEventuallyRemoved ==
    \A t \in Uuids :
        (Overdue(t) /\ cleanup = "running" /\ ~ctxDone /\ nCalls < MaxCalls)
            ~> (~MapLoad(tokens, t) \/ ctxDone)

\* the goroutine takes a token out of the store only when the token is
\* older than maxAge
OnlyOverdueRemoved ==
    \A t \in DOMAIN tokens : ~MapLoad(tokens', t) => Overdue(t)

\* C25: while the context is not canceled the cleanup goroutine sweeps on
\* every tick: a token older than maxAge that nothing else consumes is
\* eventually removed from the store, and the goroutine never removes a
\* token whose age does not exceed maxAge.
C25_SweepsUntilCanceled ==
    /\ OverdueEventuallyRemoved
    /\ [][OnlyOverdueRemoved]_vars

\* before any cancel, a sweep of the goroutine has returned after removing
\* the one overdue token and keeping the one that was not
C25_Witness ==
    /\ cleanup = "running" /\ ~ctxDone
    /\ Returned(Cleaner, "RemoveExpired")
    /\ call[Cleaner].retInt = 1
    /\ Cardinality(stored) = MaxTokens
    /\ Cardinality(DOMAIN tokens) = MaxTokens - 1
    /\ \A t \in DOMAIN tokens : ~Overdue(t)

(***************************************************************************)
(* Claims about the order of the filter's tests, under SpecPipeline.       *)
(***************************************************************************)
\* the decrypted bid i fails the price test and the replay test at once
BothInvalid(i) ==
    /\ DecryptedBid(i).Price <= 0
    /\ DecryptedBid(i).AuctionToken # EmptyID
    /\ DecryptedBid(i).AuctionToken \in consumedTokens

\* C26: the filter tests the price first: a bid with an invalid price whose
\* auction token is in consumedTokens is excluded exactly once, with
\* reason "invalid price" and never "replay detected"; and every bid given
\* to the filter ends in exactly one of the admissible list and the
\* exclusion list.
C26_PriceTestFirst ==
    filterDone =>
        /\ \A i \in DecryptedIDs :
              /\ Cardinality(AdmittedAt(i)) + Cardinality(ExcludedAt(i)) = 1
              /\ BothInvalid(i) =>
                    /\ AdmittedAt(i) = {}
                    /\ \A j \in ExcludedAt(i) :
                          filterOut.exclusions[j].Reason = "invalid price"
        /\ Len(filterOut.admissible) + Len(filterOut.exclusions) = Len(pipeOut.decrypted)

\* a sealed bid with a negative price and a consumed token went through the
\* filter next to a bid that was admitted
C26_Witness ==
    /\ filterDone /\ HasKey
    /\ Len(pipeOut.decrypted) = MaxBatchBids
    /\ \E i \in DecryptedIDs :
          /\ Encrypted(i) /\ BothInvalid(i)
          /\ \E j \in ExcludedAt(i) : filterOut.exclusions[j].Reason = "invalid price"
    /\ Len(filterOut.admissible) = MaxBatchBids - 1
    /\ Len(filterOut.exclusions) = 1

(***************************************************************************)
(* Claims about the order of DecryptHybrid's checks, under SpecDecrypt.    *)
(***************************************************************************)
\* the defects of the strings given to DecryptHybrid, each with the place
\* of its check in the order and the error the check reports
Defects ==
    LET e == encResult[1] IN
    (IF ~e.EncryptedAESKey.valid
        THEN {<<1, "failed to decode encrypted AES key">>} ELSE {}) \cup
    (IF ~e.EncryptedPayload.valid
        THEN {<<2, "failed to decode encrypted payload">>} ELSE {}) \cup
    (IF ~e.Nonce.valid
        THEN {<<3, "failed to decode nonce">>} ELSE {}) \cup
    (IF encPublicKey # decPrivateKey
        THEN {<<4, "failed to decrypt AES key">>} ELSE {}) \cup
    (IF e.EncryptedAESKey.bytes.msg.len # AESKeyLen
        THEN {<<5, "invalid AES key length">>} ELSE {}) \cup
    (IF e.Nonce.bytes.len # GCMNonceSize
        THEN {<<6, "invalid nonce length">>} ELSE {}) \cup
    (IF ~e.EncryptedPayload.bytes.intact
        THEN {<<7, "failed to decrypt payload">>} ELSE {})

FirstDefect == CHOOSE d \in Defects : \A x \in Defects : d[1] <= x[1]

DecodeErrors ==
    {"failed to decode encrypted AES key", "failed to decode encrypted payload",
     "failed to decode nonce"}

\* C27: DecryptHybrid reports the first failing check in the order: base64
\* decoding of the wrapped key, of the payload, of the nonce; the RSA-OAEP
\* unwrapping of the key; the length of the unwrapped key (32); the length
\* of the nonce (12); the GCM authentication.  A malformed base64 field
\* gives a decode error also when the private key is the wrong one, and a
\* wrong nonce length is reported only when the key was unwrapped.
C27_FirstFailingCheck ==
    decResult # Nil =>
        LET r == decResult[1]
            e == encResult[1]
        IN  /\ Defects = {} => r.err = "" /\ r.plaintext = Ptr(inPlaintext)
            /\ Defects # {} => r.err = FirstDefect[2] /\ r.plaintext = Nil
            /\ ~(e.EncryptedAESKey.valid /\ e.EncryptedPayload.valid /\ e.Nonce.valid)
                  => r.err \in DecodeErrors
            /\ r.err = "invalid nonce length"
                  => /\ encPublicKey = decPrivateKey
                     /\ e.EncryptedAESKey.bytes.msg.len = AESKeyLen

\* every part is damaged and the private key is the wrong one: the error
\* is the one of the first check
C27_Witness ==
    /\ decResult # Nil
    /\ Cardinality(Defects) = 7
    /\ decResult[1].err = "failed to decode encrypted AES key"

\* a nonce of the wrong length and a wrong private key: the key is reported
C27_WitnessWrongKeyBeforeNonce ==
    /\ decResult # Nil
    /\ {d[1] : d \in Defects} = {4, 6}
    /\ decResult[1].err = "failed to decrypt AES key"

(***************************************************************************)
(* Claims about a whole round, checked under SpecRound.                    *)
(***************************************************************************)
\* what bid i of the batch resolves to: the sealed payload when there is a
\* key manager and an EncryptedPrice, the plaintext price and no token
\* otherwise
ResolvedPrice(i) ==
    IF HasKey /\ Encrypted(i) THEN SealedPayload(i).price ELSE encBids[i].Price

ResolvedToken(i) ==
    IF HasKey /\ Encrypted(i) /\ "auction_token" \in DOMAIN SealedPayload(i)
    THEN SealedPayload(i).auction_token
    ELSE EmptyID

\* bid i resolves, to a price above zero, and the token it carries (if any)
\* is not in consumedTokens
AdmissibleBid(i) ==
    /\ ~Failing(i)
    /\ ResolvedPrice(i) > 0
    /\ ResolvedToken(i) # EmptyID => ResolvedToken(i) \notin consumedTokens

DecryptExcludedAt(i) == Positions(pipeOut.excluded, LAMBDA x : x.BidID = i)

\* C28: a bid excluded at the decryption stage or at the filter stage does
\* not appear in the ranking: every bid in HighestBids is an admissible bid
\* (it resolved, its price is above zero, its token is not in
\* consumedTokens), and every bid of the batch is either admissible, and
\* then admitted once, or reported in exactly one exclusion record.
C28_RankingHoldsAdmissibleOnly ==
    rankCalls = 1 =>
        /\ \A b \in DOMAIN rankResult.HighestBids :
              LET a == bids[rankResult.HighestBids[b]] IN
              /\ a.ID \in 1..Len(encBids)
              /\ AdmissibleBid(a.ID)
              /\ a.Bidder = b /\ encBids[a.ID].Bidder = b
              /\ a.Price = ResolvedPrice(a.ID)
              /\ DecryptExcludedAt(a.ID) = {} /\ ExcludedAt(a.ID) = {}
        /\ \A i \in 1..Len(encBids) :
              IF AdmissibleBid(i)
              THEN /\ Cardinality(AdmittedAt(i)) = 1
                   /\ DecryptExcludedAt(i) = {} /\ ExcludedAt(i) = {}
              ELSE /\ AdmittedAt(i) = {}
                   /\ Cardinality(DecryptExcludedAt(i)) + Cardinality(ExcludedAt(i)) = 1

\* a batch of which one bid could not be decrypted and another was admitted
\* and is the highest bid of its bidder in the ranking
C28_Witness ==
    /\ rankCalls = 1 /\ HasKey
    /\ Len(encBids) = MaxBatchBids
    /\ \E i \in 1..Len(encBids) : Failing(i) /\ Cardinality(DecryptExcludedAt(i)) = 1
    /\ \E b \in DOMAIN rankResult.HighestBids :
          Encrypted(bids[rankResult.HighestBids[b]].ID)

\* a batch of which one bid was excluded by the filter for replay and the
\* other is ranked
C28_WitnessFilter ==
    /\ rankCalls = 1 /\ HasKey
    /\ \E j \in 1..Len(filterOut.exclusions) : filterOut.exclusions[j].Reason = "replay detected"
    /\ Cardinality(DOMAIN rankResult.HighestBids) = 1

(***************************************************************************)
(* Claims about RemoveExpired next to GenerateToken, checked under Spec.   *)
(***************************************************************************)
\* goroutine p is inside a RemoveExpired call
Sweeping(p) == pc[p] \in {"RemoveExpired.Range", "RemoveExpired.func"}

\* a GenerateToken call that begins while a RemoveExpired call is running
\* gives its token a creation time that is not before that call's `now`
IssuedAfterIsNotOlder ==
    \A p, q \in Procs :
        Sweeping(p) /\ pc[q] # "GenerateToken.Store" /\ pc'[q] = "GenerateToken.Store"
            => call'[q].createdAt >= call[p].now

\* the callback of a RemoveExpired call takes out no token that is as young
\* as the call's `now`, whether it visits it or not
SweepSparesNewer ==
    \A p \in Procs :
        pc[p] = "RemoveExpired.func" /\ pc'[p] = "RemoveExpired.Range"
            => \A t \in DOMAIN tokens :
                  tokens[t] >= call[p].now => MapLoad(tokens', t) /\ tokens'[t] = tokens[t]

\* C29: a RemoveExpired call with maxAge >= 0 reads the time once, when it
\* begins, and never removes a token that was issued after it began,
\* whether or not its Range visits the new entry; the token stays in the
\* store until it is consumed or a later sweep removes it.
C29_SweepSparesLaterTokens ==
    /\ [][IssuedAfterIsNotOlder]_vars
    /\ [][SweepSparesNewer]_vars

\* a sweep has removed the token that was overdue when it began, has also
\* visited a token that was stored after it began, and that token is still
\* in the store
C29_Witness ==
    \E p \in Procs :
        /\ pc[p] = "RemoveExpired.Range"
        /\ call[p].expiredCount = 1
        /\ DOMAIN tokens \subseteq call[p].visited
        /\ \E t \in call[p].visited \ call[p].snap :
              MapLoad(tokens, t) /\ tokens[t] >= call[p].now

====
